---- MODULE Spec2Model ----
(***************************************************************************)
(* A model of the wr manager: the jobqueue server's request dispatcher     *)
(* (jobqueue/serverCLI.go, handleRequest) on top of the multi-sub-queue    *)
(* queue, and the OpenStack scheduler's runCmd (scheduler/openstack.go).   *)
(*                                                                         *)
(* Spec        : the server with one job and two clients; one action per   *)
(*               request method or timer.                                  *)
(* QueueSpec   : two jobs and one client, through every sub-queue.         *)
(* AddSpec     : add requests with duplicate and completed jobs.           *)
(* KillSpec    : kill requests against a running job.                      *)
(* ReserveSpec : reserve requests that poll an empty queue.                *)
(* SchedSpec   : the scheduler; one action per step of runCmd between two  *)
(*               acquisitions of the scheduler mutex.                      *)
(* BurySpec    : bury, kick and delete requests, with dependencies.        *)
(* UserSpec    : requests of the owner and of other users.                 *)
(* ErrorSpec   : requests the server refuses as the client's error.        *)
(* QuotaSpec   : runCmd called only while canCount allows it.              *)
(* StandinSpec : runCmd calls that wait for one standin's server.          *)
(* ReqSpec     : reqCheck under every quota and set of flavors.            *)
(* ArchiveSpec : jarchive step by step, beside the other requests.         *)
(* CloseSpec   : reserve requests on a queue that is destroyed.            *)
(* PollSpec    : CloseSpec with the polling goroutine's timer fair.        *)
(* WaitSpec    : runCmd calls that wait their turn to spawn.               *)
(* LockSpec    : the mutexes each request takes and gives back.            *)
(* CountSpec   : canCount under quotas partly used and reserved.           *)
(* SpaceSpec   : one standin, asked for room and allocated on.             *)
(* SignalSpec  : WaitSpec with every started call going on.                *)
(***************************************************************************)
EXTENDS Integers, Sequences, FiniteSets, TLC

\* ------------------------------------------------------------------ bounds
MaxRetries == 1
MaxBatch == 2
MaxKeyList == 1
MaxTimeout == 1
TTRTicks == 2
MaxPolling == 1
MaxCalls == 3
MaxTime == 12
PerServer == 2

\* the job keys, client ids and scheduler groups of the model
Keys == {1, 2}
Clients == {1, 2}
Groups == {1, 2}

\* the zero uuid, also the value of a Job's ReservedBy before any reserve
ZeroClient == 0
\* cr.Job == nil, cr.Keys == nil
NilJob == 0
NilKeys == <<0>>
\* cr.SchedulerGroup == ""
NoGroup == 0

VARIABLES
    jobs,          \* the queue's items: key -> the *Job the item holds
    delayQ,        \* sub-queue Delay
    readyQ,        \* sub-queue Ready
    runQ,          \* sub-queue Run
    buryQ,         \* sub-queue Bury
    depQ,          \* sub-queue Dependency
    waitingOn,     \* key -> the unresolved dependencies of a dependent item
    ttrLeft,       \* key -> ticks until the item's TTR expires (0 outside Run)
    sgroupcounts,  \* Server.sgroupcounts
    rc,            \* Server.rc != ""
    drain,         \* Server.drain
    killRunners,   \* Server.killRunners
    liveB,         \* store: keys of the live bucket
    completeB,     \* store: keys of the complete bucket
    polling,       \* client -> its reserve request that is polling, if any
    killAccepted,  \* keys in Run that a jkill counted killable, with no jtouch answered since
    queues,        \* the names of the queues the server has made
    archiving,     \* client -> where its jarchive request is, taken step by step
    locking,       \* client -> the locks its request holds, and where the request is
    closed,        \* the queue has been destroyed
    cast,          \* the events the latest jtouch let through sent the status caster
    resp           \* the serverResponse sent last

srvVars == <<jobs, delayQ, readyQ, runQ, buryQ, depQ, waitingOn, ttrLeft,
             sgroupcounts, rc, drain, killRunners, liveB, completeB, polling,
             killAccepted, queues, archiving, locking, closed, cast,
             resp>>

\* the requests that handleRequest is in the middle of
handlerVars == <<archiving, locking>>

\* the OpenStack scheduler (opst) and the runCmd calls on it
VARIABLES
    now,                \* time.Now(), in seconds
    perServer,          \* the commands a server of the flavor chosen has room for
    quota,              \* what provider.GetQuota() returns (the maxima)
    flavors,            \* the provider's flavors whose name matches the flavor regex
    checked,            \* the requirements reqCheck was last called with, and its error
    counted,            \* the last call of canCount: what it was asked and what it returned
    standinServer,      \* one standin with its flavor and usage, and the last call on it
    nextSpawnTime,      \* opst.nextSpawnTime
    waitingToSpawn,     \* opst.waitingToSpawn
    spawningNow,        \* opst.spawningNow
    reservedInstances,  \* opst.reservedInstances
    reserved,           \* opst.reservedCores, reservedRAM and reservedVolume
    servers,            \* opst.servers: server id -> commands allocated, destroyed
    standins,           \* opst.standins: standin id -> commands allocated
    latch,              \* standin id -> "" | "work" | "fail" (standin.work, .fail)
    pc,                 \* call -> where the runCmd call is
    waitOn,             \* call -> the standin it waits for in waitForServer
    visited,            \* call -> the standins its loop over opst.standins has used
    server,             \* call -> the server it has (the variable server), or NoServer
    stopSent,           \* stopWaitingToSpawn signals received and not acted on yet
    spawnLog            \* the times at which provider.Spawn was called, in order

reqVars == <<perServer, quota, flavors, checked, counted, standinServer>>

quietVars == <<reqVars, reserved>>

schedVars == <<now, quietVars, nextSpawnTime, waitingToSpawn, spawningNow, reservedInstances,
               servers, standins, latch, pc, waitOn, visited, server, stopSent,
               spawnLog>>

vars == <<srvVars, schedVars>>

\* ------------------------------------------------------------ error tokens
ErrBadRequest == "BadRequest"
ErrBadJob == "BadJob"
ErrMustReserve == "MustReserve"
ErrDBError == "DBError"
ErrInternalError == "InternalError"
ErrQueueClosed == "QueueClosed"
ErrWrongUser == "WrongUser"
ErrUnknownCommand == "UnknownCommand"

JobStateComplete == "complete"

\* ---------------------------------------------------------------- helpers
Items == DOMAIN jobs

SubQueueOf(k) ==
    IF k \in runQ THEN "run"
    ELSE IF k \in readyQ THEN "ready"
    ELSE IF k \in delayQ THEN "delay"
    ELSE IF k \in buryQ THEN "bury"
    ELSE IF k \in depQ THEN "dependent"
    ELSE "none"

\* a serverResponse; Job is the key of the job returned (NilJob for none)
Response(err) ==
    [Err |-> err, Job |-> NilJob, Jobs |-> {}, Added |-> 0, Existed |-> 0,
     KillCalled |-> FALSE]

\* a clientRequest, as far as the handlers read it
Request(method, client, key) ==
    [Method |-> method, ClientID |-> client, Job |-> key, Keys |-> <<>>,
     Timeout |-> 0, SchedulerGroup |-> NoGroup, FirstReserve |-> FALSE]

NotPolling == [on |-> FALSE, group |-> NoGroup, timeout |-> 0]

Put(f, k, v) == [x \in (DOMAIN f) \cup {k} |-> IF x = k THEN v ELSE f[x]]
Drop(f, k) == [x \in (DOMAIN f) \ {k} |-> f[x]]

\* ------------------------------------------------------------------- jobs
\* what an add request says about one job: its key (the hash of Cmd and Cwd),
\* its Retries, its scheduler group and the keys it depends on. The jobs that
\* clients submit are these: the job of key 1, with any number of retries, and
\* the job of key 2, which depends on it
JobDefs ==
    {[key |-> 1, Retries |-> r, group |-> 1, deps |-> {}] : r \in 0..MaxRetries}
    \cup {[key |-> 2, Retries |-> 0, group |-> g, deps |-> {1}] : g \in Groups}

\* the jobs whose command the workers get to run: jstart and jend come for these
StartKeys == {1}

\* the RepGroup of the job of each key
RepGroups == [k \in Keys |-> IF k = 1 THEN "first" ELSE "rest"]

\* the Job createJobs makes of a definition
NewJob(d) ==
    [Retries |-> d.Retries, UntilBuried |-> d.Retries + 1,
     schedulerGroup |-> d.group, ReservedBy |-> ZeroClient,
     Exited |-> FALSE, Exitcode |-> 0, Pid |-> 0, Host |-> "",
     StartTime |-> FALSE, EndTime |-> FALSE,
     FailReason |-> "", State |-> "", killCalled |-> FALSE, Lost |-> FALSE,
     RepGroup |-> RepGroups[d.key]]

\* the state a client is told (itemToJob)
itemsStateToJobState(sq) ==
    CASE sq = "delay" -> "delayed"
      [] sq = "ready" -> "ready"
      [] sq = "run" -> "reserved"
      [] sq = "bury" -> "buried"
      [] sq = "dependent" -> "dependent"
      [] OTHER -> ""

itemToJobState(k) ==
    LET state == itemsStateToJobState(SubQueueOf(k)) IN
    IF state = "" THEN "unknown"
    ELSE IF state = "reserved" /\ jobs[k].Lost THEN "lost"
    ELSE IF jobs[k].StartTime /\ state = "reserved" THEN "running"
    ELSE state

\* ------------------------------------------------------- scheduler groups
CountIn(js, S, g) == Cardinality({k \in S : js[k].schedulerGroup = g})

\* the queue's ready-added callback: the per-group demand is computed anew
\* whenever an item is put in Ready
GroupDemand(js, ready, run, delay) ==
    [g \in Groups |-> CountIn(js, ready \cup run \cup delay, g)]

decrementGroupCount(g) ==
    [sgroupcounts EXCEPT ![g] = @ - 1]

\* ------------------------------------------------------------------ queue
\* q.Reserve([group]): the Ready items a Reserve may pop
ReserveCandidates(group) ==
    {k \in readyQ : group = NoGroup \/ jobs[k].schedulerGroup = group}

\* q.HasDependents(key)
HasDependents(k) == \E d \in depQ : k \in waitingOn[d]

\* q.Remove(key): the dependents the removal leaves with no unresolved
\* dependency move to Ready
Resolved(k) == {d \in depQ : waitingOn[d] = {k}}

UnchangedQueue == UNCHANGED <<jobs, delayQ, readyQ, runQ, buryQ, depQ, waitingOn, ttrLeft>>
UnchangedStore == UNCHANGED <<liveB, completeB>>
\* line 44: the queue a request names is made when the server does not have
\* it yet
getOrCreateQueue(name) == queues' = queues \cup {name}

\* the queue the clients and workers of the model send their requests to
CmdsQueue == "cmds"

\* what every handler but that of drain leaves alone; a request makes the
\* queue it is for, and the timers and tickers run on a queue that is there
UnchangedSettings ==
    /\ UNCHANGED <<rc, drain, killRunners, closed, cast, schedVars>>
    /\ getOrCreateQueue(CmdsQueue)

UnchangedFlags == UnchangedSettings /\ UNCHANGED handlerVars

\* a request answered with an error token and nothing else
RefuseAndForget(cr, err) ==
    /\ resp' = Response(err)
    /\ sgroupcounts' = [g \in Groups |-> 0]
    /\ UnchangedQueue /\ UnchangedStore /\ UnchangedFlags
    /\ UNCHANGED <<polling, killAccepted>>

Refuse(cr, err) ==
    /\ resp' = Response(err)
    /\ UnchangedQueue /\ UnchangedStore /\ UnchangedFlags
    /\ UNCHANGED <<sgroupcounts, polling, killAccepted>>

\* ----------------------------------------------------------------- getij
getijAnyClient(cr) ==
    IF cr.Job = NilJob THEN ErrBadRequest
    ELSE IF cr.Job \notin Items \/ SubQueueOf(cr.Job) # "run" THEN ErrBadJob
    ELSE ""

getij(cr) ==
    IF cr.Job = NilJob THEN ErrBadRequest
    ELSE IF cr.Job \notin Items \/ SubQueueOf(cr.Job) # "run" THEN ErrBadJob
    ELSE IF cr.ClientID # jobs[cr.Job].ReservedBy THEN ErrMustReserve
    ELSE ""

\* a client with a request in flight sends nothing else
NotArchiving == [pc |-> "", key |-> NilJob, group |-> NoGroup, recounted |-> FALSE]

Free(c) == c \in Clients => (~polling[c].on /\ archiving[c] = NotArchiving)

\* ---------------------------------------------------------------- add
KeyLists == UNION {[1..n -> Keys] : n \in 0..MaxKeyList}
JobLists == UNION {[1..n -> JobDefs] : n \in 1..MaxBatch}
KeysOf(jl) == [i \in DOMAIN jl |-> jl[i].key]

\* createJobs: each job whose key is in the queue already is a duplicate, each
\* whose key is in the complete bucket is left out unless IgnoreComplete says
\* otherwise; the others go to the live bucket and into the queue, to
\* Dependency when a job they depend on is in the queue, else to Ready
RECURSIVE createJobs(_, _, _)
createJobs(jl, ignoreComplete, st) ==
    IF jl = <<>> THEN st
    ELSE
        LET d == Head(jl)
            unmet == (d.deps \ {d.key}) \cap DOMAIN st.jobs
            next ==
                IF d.key \in DOMAIN st.jobs
                THEN [st EXCEPT !.dups = @ + 1]
                ELSE IF d.key \in completeB /\ ~ignoreComplete
                THEN [st EXCEPT !.alreadyComplete = @ + 1]
                ELSE [st EXCEPT !.jobs = Put(@, d.key, NewJob(d)),
                                !.live = @ \cup {d.key},
                                !.added = @ + 1,
                                !.ready = IF unmet = {} THEN @ \cup {d.key} ELSE @,
                                !.dep = IF unmet = {} THEN @ ELSE @ \cup {d.key},
                                !.waitingOn = [@ EXCEPT ![d.key] = unmet]]
        IN createJobs(Tail(jl), ignoreComplete, next)

\* the add requests: well-formed ones with every list of jobs, and one of each
\* kind that is refused
AddInputs ==
    {<<TRUE, TRUE, jl, TRUE, ic>> : jl \in JobLists, ic \in BOOLEAN}
    \cup {<<FALSE, TRUE, jl, TRUE, FALSE>> : jl \in {l \in JobLists : Len(l) = 1}}
    \cup {<<TRUE, FALSE, <<>>, TRUE, FALSE>>}
    \cup {<<TRUE, TRUE, jl, FALSE, FALSE>> : jl \in {l \in JobLists : Len(l) = 1}}

\* line 113: the serverResponse of an add
addResponseNoDups(added, dups, alreadyComplete) ==
    [Response("") EXCEPT !.Added = added, !.Existed = alreadyComplete]

addResponse(added, dups, alreadyComplete) ==
    [Response("") EXCEPT !.Added = added, !.Existed = dups + alreadyComplete]

AddRequest(hasJobs, jl) ==
    [Request("add", ZeroClient, NilJob) EXCEPT
        !.Keys = IF hasJobs THEN KeysOf(jl) ELSE NilKeys]

Add(hasEnv, hasJobs, jl, envStored, ignoreComplete) ==
    LET cr == AddRequest(hasJobs, jl) IN
    IF ~hasEnv \/ ~hasJobs THEN Refuse(cr, ErrBadRequest)
    ELSE IF ~envStored THEN Refuse(cr, ErrDBError)
    ELSE
        LET st == createJobs(jl, ignoreComplete,
                      [jobs |-> jobs, ready |-> readyQ, dep |-> depQ,
                       waitingOn |-> waitingOn, live |-> liveB,
                       added |-> 0, dups |-> 0, alreadyComplete |-> 0])
        IN
        /\ jobs' = st.jobs
        /\ readyQ' = st.ready
        /\ depQ' = st.dep
        /\ waitingOn' = st.waitingOn
        /\ liveB' = st.live
        /\ sgroupcounts' = IF st.ready # readyQ
                           THEN GroupDemand(st.jobs, st.ready, runQ, delayQ)
                           ELSE sgroupcounts
        /\ resp' = addResponse(st.added, st.dups, st.alreadyComplete)
        /\ UNCHANGED <<delayQ, runQ, buryQ, ttrLeft, completeB, polling, killAccepted>>
        /\ UnchangedFlags

\* ------------------------------------------------------------ reserve
ReserveRequest(c, group, first, timeout) ==
    [Request("reserve", c, NilJob) EXCEPT
        !.SchedulerGroup = group, !.FirstReserve = first, !.Timeout = timeout]

\* lines 194-215: the item q.Reserve returned is given to the client
Reserved(cr, k) ==
    /\ readyQ' = readyQ \ {k}
    /\ runQ' = runQ \cup {k}
    /\ ttrLeft' = [ttrLeft EXCEPT ![k] = TTRTicks]
    /\ jobs' = [jobs EXCEPT ![k] =
                  [@ EXCEPT !.ReservedBy = cr.ClientID, !.Exited = FALSE,
                            !.Pid = 0, !.Host = "", !.StartTime = FALSE,
                            !.EndTime = FALSE, !.Exitcode = -1]]
    /\ resp' = [Response("") EXCEPT !.Job = k]
    /\ UNCHANGED <<delayQ, buryQ, depQ, waitingOn, sgroupcounts, killAccepted>>
    /\ UnchangedStore /\ UnchangedFlags

\* the request is answered with neither a job nor an error
NoJob(cr) ==
    /\ resp' = Response("")
    /\ UnchangedQueue /\ UnchangedStore /\ UnchangedFlags
    /\ UNCHANGED <<sgroupcounts, killAccepted>>

skip(cr) ==
    /\ cr.SchedulerGroup # NoGroup
    /\ cr.FirstReserve /\ rc
    /\ sgroupcounts[cr.SchedulerGroup] = 0

\* lines 150-155: the stop channel of a polling reserve request fires, after the
\* Timeout, only when the Timeout is positive; otherwise it is a channel that
\* nothing ever sends on
stopFiresNever(timeout) == FALSE

stopFiresAlways(timeout) == TRUE

stopFires(timeout) == timeout > 0

Reserve(c, group, first, timeout) ==
    LET cr == ReserveRequest(c, group, first, timeout) IN
    /\ Free(c)
    /\ IF c = ZeroClient THEN Refuse(cr, ErrBadRequest)
       ELSE IF drain \/ skip(cr) THEN NoJob(cr) /\ UNCHANGED polling
       ELSE IF closed
       THEN \* lines 146-147: an error of q.Reserve other than ErrNothingReady
            \* sets neither the item nor srerr
            NoJob(cr) /\ UNCHANGED polling
       ELSE IF ReserveCandidates(group) # {}
       THEN \E k \in ReserveCandidates(group) : Reserved(cr, k) /\ UNCHANGED polling
       ELSE \* ErrNothingReady: the request polls, and is not answered yet
            /\ Cardinality({p \in Clients : polling[p].on}) < MaxPolling
            /\ polling' = [polling EXCEPT ![c] =
                  [on |-> TRUE, group |-> group, timeout |-> timeout]]
            /\ UNCHANGED resp
            /\ UnchangedQueue /\ UnchangedStore /\ UnchangedFlags
            /\ UNCHANGED <<sgroupcounts, killAccepted>>

PollRequest(c) ==
    [Request("reserve", c, NilJob) EXCEPT
        !.SchedulerGroup = polling[c].group, !.Timeout = polling[c].timeout]

\* case <-ticker.C with an item in Ready
PollTick(c) ==
    /\ polling[c].on
    /\ ~closed
    /\ \E k \in ReserveCandidates(polling[c].group) : Reserved(PollRequest(c), k)
    /\ polling' = [polling EXCEPT ![c] = NotPolling]

\* lines 165-175: case <-ticker.C with the queue closed
PollClosed(c) ==
    /\ polling[c].on
    /\ closed
    /\ resp' = Response(ErrQueueClosed)
    /\ polling' = [polling EXCEPT ![c] = NotPolling]
    /\ UnchangedQueue /\ UnchangedStore /\ UnchangedFlags
    /\ UNCHANGED <<sgroupcounts, killAccepted>>

\* case <-stop
PollTimeout(c) ==
    /\ polling[c].on
    /\ stopFires(polling[c].timeout)
    /\ NoJob(PollRequest(c))
    /\ polling' = [polling EXCEPT ![c] = NotPolling]

\* ------------------------------------------------------------- jstart
\* the Pid and Host of a jstart request: a well-formed pair and the two bad ones
StartInputs == {<<1, "host">>, <<0, "host">>, <<1, "">>}

Jstart(c, k, pid, host) ==
    LET cr == Request("jstart", c, k)
        srerr == getij(cr)
    IN
    /\ Free(c)
    /\ IF srerr # "" THEN Refuse(cr, srerr)
       ELSE IF pid <= 0 \/ host = "" THEN Refuse(cr, ErrBadRequest)
       ELSE
           /\ jobs' = [jobs EXCEPT ![k] =
                         [@ EXCEPT !.Host = host, !.Pid = pid, !.StartTime = TRUE,
                                   !.EndTime = FALSE,
                                   !.killCalled = FALSE, !.Lost = FALSE]]
           /\ resp' = Response("")
           /\ UNCHANGED <<delayQ, readyQ, runQ, buryQ, depQ, waitingOn, ttrLeft>>
           /\ UnchangedStore /\ UnchangedFlags
           /\ UNCHANGED <<sgroupcounts, polling, killAccepted>>

\* ------------------------------------------------------------- jtouch
\* q.Touch(key): the item's TTR starts anew
Touch(k) == [ttrLeft EXCEPT ![k] = TTRTicks]

JobStateLost == "lost"
JobStateRunning == "running"
AllGroups == "+all+"

jstateCount(repGroup, from, to, count) ==
    [RepGroup |-> repGroup, FromState |-> from, ToState |-> to, Count |-> count]

\* lines 272-275: the events of a job going from lost to running
lostToRunningAllOnly(job) ==
    <<jstateCount(AllGroups, JobStateLost, JobStateRunning, 1)>>

lostToRunning(job) ==
    <<jstateCount(AllGroups, JobStateLost, JobStateRunning, 1),
      jstateCount(job.RepGroup, JobStateLost, JobStateRunning, 1)>>

Jtouch(c, k) ==
    LET cr == Request("jtouch", c, k)
        srerr == getij(cr)
    IN
    /\ Free(c)
    /\ IF srerr # "" THEN Refuse(cr, srerr)
       ELSE
           LET killCalled == jobs[k].killCalled \/ killRunners
               lost == jobs[k].Lost
           IN
           /\ ttrLeft' = IF ~killCalled THEN Touch(k) ELSE ttrLeft
           /\ jobs' = IF ~killCalled /\ lost
                      THEN [jobs EXCEPT ![k] = [@ EXCEPT !.Lost = FALSE, !.EndTime = FALSE]]
                      ELSE jobs
           /\ cast' = IF ~killCalled /\ lost THEN lostToRunning(jobs[k]) ELSE <<>>
           /\ killAccepted' = killAccepted \ {k}
           /\ resp' = [Response("") EXCEPT !.KillCalled = killCalled]
           /\ UNCHANGED <<delayQ, readyQ, runQ, buryQ, depQ, waitingOn>>
           /\ UnchangedStore
           /\ UNCHANGED <<rc, drain, killRunners, closed, schedVars, handlerVars>>
           /\ getOrCreateQueue(CmdsQueue)
           /\ UNCHANGED <<sgroupcounts, polling>>

\* --------------------------------------------------------------- jend
Jend(c, k, exitcode) ==
    LET cr == Request("jend", c, k)
        srerr == getij(cr)
    IN
    /\ Free(c)
    /\ IF srerr # "" THEN Refuse(cr, srerr)
       ELSE
           /\ jobs' = [jobs EXCEPT ![k] =
                         [@ EXCEPT !.Exited = TRUE, !.Exitcode = exitcode,
                                   !.EndTime = TRUE]]
           /\ resp' = Response("")
           /\ UNCHANGED <<delayQ, readyQ, runQ, buryQ, depQ, waitingOn, ttrLeft>>
           /\ UnchangedStore /\ UnchangedFlags
           /\ UNCHANGED <<sgroupcounts, polling, killAccepted>>

\* ----------------------------------------------------------- jarchive
\* q.Remove(key), from whichever sub-queue has the item, with the dependents
\* it resolves
RemoveFromQueue(k) ==
    /\ jobs' = Drop(jobs, k)
    /\ runQ' = runQ \ {k}
    /\ buryQ' = buryQ \ {k}
    /\ delayQ' = delayQ \ {k}
    /\ readyQ' = (readyQ \ {k}) \cup Resolved(k)
    /\ depQ' = (depQ \ {k}) \ Resolved(k)
    /\ waitingOn' = [d \in Keys |-> IF d = k THEN {} ELSE waitingOn[d] \ {k}]
    /\ ttrLeft' = [ttrLeft EXCEPT ![k] = 0]

\* line 310: the job has not exited, or not with code 0, or lacks a time
notExited(job) == ~job.Exited

notCleanlyExited(job) ==
    ~job.Exited \/ job.Exitcode # 0 \/ ~job.StartTime \/ ~job.EndTime

\* lines 316-336: the job goes to the complete bucket and its item leaves the
\* queue
ArchiveKeepsItem(k) ==
    /\ completeB' = completeB \cup {k}
    /\ liveB' = liveB \ {k}
    /\ UnchangedQueue
    /\ sgroupcounts' = decrementGroupCount(jobs[k].schedulerGroup)
    /\ killAccepted' = killAccepted \ {k}
    /\ resp' = Response("")

Archive(k) ==
    /\ completeB' = completeB \cup {k}
    /\ liveB' = liveB \ {k}
    /\ RemoveFromQueue(k)
    /\ sgroupcounts' =
          IF Resolved(k) # {}
          THEN GroupDemand(jobs, readyQ \cup Resolved(k), runQ \ {k}, delayQ)
          ELSE decrementGroupCount(jobs[k].schedulerGroup)
    /\ killAccepted' = killAccepted \ {k}
    /\ resp' = Response("")

Jarchive(c, k, archived) ==
    LET cr == Request("jarchive", c, k)
        srerr == getij(cr)
    IN
    /\ Free(c)
    /\ IF srerr # "" THEN Refuse(cr, srerr)
       ELSE IF SubQueueOf(k) # "run" THEN Refuse(cr, ErrBadJob)
       ELSE IF notCleanlyExited(jobs[k]) THEN Refuse(cr, ErrBadRequest)
       ELSE IF ~archived
       THEN \* s.db.archiveJob failed
           /\ jobs' = [jobs EXCEPT ![k] =
                         [@ EXCEPT !.State = JobStateComplete, !.FailReason = ""]]
           /\ resp' = Response(ErrDBError)
           /\ UNCHANGED <<delayQ, readyQ, runQ, buryQ, depQ, waitingOn, ttrLeft>>
           /\ UnchangedStore /\ UnchangedFlags
           /\ UNCHANGED <<sgroupcounts, polling, killAccepted>>
       ELSE
           /\ Archive(k)
           /\ UNCHANGED polling
           /\ UnchangedFlags

\* The same handler, one step for each call it makes once the job's lock is
\* released: other requests and the queue's timers run in between.
\* lines 300-318: the checks, and the job marked complete under its lock
JarchiveCheck(c, k) ==
    LET cr == Request("jarchive", c, k)
        srerr == getij(cr)
    IN
    /\ Free(c)
    /\ IF srerr # "" THEN Refuse(cr, srerr)
       ELSE IF SubQueueOf(k) # "run" THEN Refuse(cr, ErrBadJob)
       ELSE IF notCleanlyExited(jobs[k]) THEN Refuse(cr, ErrBadRequest)
       ELSE
           /\ jobs' = [jobs EXCEPT ![k] =
                         [@ EXCEPT !.State = JobStateComplete, !.FailReason = ""]]
           /\ archiving' = [archiving EXCEPT ![c] =
                              [pc |-> "archiveJob", key |-> k,
                               group |-> jobs[k].schedulerGroup, recounted |-> FALSE]]
           /\ UNCHANGED <<delayQ, readyQ, runQ, buryQ, depQ, waitingOn, ttrLeft>>
           /\ UnchangedStore /\ UnchangedSettings /\ UNCHANGED locking
           /\ UNCHANGED <<sgroupcounts, polling, killAccepted, resp>>

\* lines 319-322: s.db.archiveJob
JarchiveStore(c, archived) ==
    LET k == archiving[c].key IN
    /\ archiving[c].pc = "archiveJob"
    /\ IF archived
       THEN /\ completeB' = completeB \cup {k}
            /\ liveB' = liveB \ {k}
            /\ archiving' = [archiving EXCEPT ![c].pc = "Remove"]
            /\ UNCHANGED resp
       ELSE /\ resp' = Response(ErrDBError)
            /\ archiving' = [archiving EXCEPT ![c] = NotArchiving]
            /\ UnchangedStore
    /\ UnchangedQueue /\ UnchangedSettings /\ UNCHANGED locking
    /\ UNCHANGED <<sgroupcounts, polling, killAccepted>>

\* the mutant of JarchiveRemove: the group's count is taken down as the item is
\* removed
RemoveAndDecrement(c) ==
    LET k == archiving[c].key IN
    /\ archiving[c].pc = "Remove"
    /\ sgroupcounts' = decrementGroupCount(archiving[c].group)
    /\ IF k \in Items
       THEN /\ RemoveFromQueue(k)
            /\ killAccepted' = killAccepted \ {k}
            /\ resp' = Response("")
       ELSE /\ resp' = Response(ErrInternalError)
            /\ UnchangedQueue
            /\ UNCHANGED killAccepted
    /\ archiving' = [archiving EXCEPT ![c] = NotArchiving]
    /\ UnchangedStore /\ UnchangedSettings /\ UNCHANGED locking
    /\ UNCHANGED polling

\* lines 324-327: q.Remove, which fails for a key the queue no longer has
JarchiveRemove(c) ==
    LET k == archiving[c].key IN
    /\ archiving[c].pc = "Remove"
    /\ IF k \in Items
       THEN /\ RemoveFromQueue(k)
            /\ sgroupcounts' =
                  IF Resolved(k) # {}
                  THEN GroupDemand(jobs, (readyQ \ {k}) \cup Resolved(k),
                                   runQ \ {k}, delayQ \ {k})
                  ELSE sgroupcounts
            /\ killAccepted' = killAccepted \ {k}
            /\ archiving' = [archiving EXCEPT ![c].pc = "decrementGroupCount",
                                              ![c].recounted = Resolved(k) # {}]
            /\ UNCHANGED resp
       ELSE /\ resp' = Response(ErrInternalError)
            /\ archiving' = [archiving EXCEPT ![c] = NotArchiving]
            /\ UnchangedQueue
            /\ UNCHANGED <<sgroupcounts, killAccepted>>
    /\ UnchangedStore /\ UnchangedSettings /\ UNCHANGED locking
    /\ UNCHANGED polling

\* lines 329-334: s.decrementGroupCount, and the reply
JarchiveCount(c) ==
    /\ archiving[c].pc = "decrementGroupCount"
    /\ sgroupcounts' = IF archiving[c].recounted THEN sgroupcounts
                       ELSE decrementGroupCount(archiving[c].group)
    /\ archiving' = [archiving EXCEPT ![c] = NotArchiving]
    /\ resp' = Response("")
    /\ UnchangedQueue /\ UnchangedStore /\ UnchangedSettings /\ UNCHANGED locking
    /\ UNCHANGED <<polling, killAccepted>>

\* ----------------------------------------------------------- jrelease
FailReasons == {"", "failed"}

\* q.Bury(key)
Bury(k) ==
    /\ runQ' = runQ \ {k}
    /\ buryQ' = buryQ \cup {k}
    /\ ttrLeft' = [ttrLeft EXCEPT ![k] = 0]
    /\ UNCHANGED <<delayQ, readyQ, depQ, waitingOn>>

\* q.Release(key)
Release(k) ==
    /\ runQ' = runQ \ {k}
    /\ delayQ' = delayQ \cup {k}
    /\ ttrLeft' = [ttrLeft EXCEPT ![k] = 0]
    /\ UNCHANGED <<buryQ, readyQ, depQ, waitingOn>>

\* lines 346-356: the job as jrelease leaves it
ReleasedAlways(job, failReason) ==
    [job EXCEPT !.FailReason = failReason, !.UntilBuried = @ - 1]

Released(job, failReason) ==
    [job EXCEPT !.FailReason = failReason,
                !.UntilBuried = IF job.StartTime THEN @ - 1 ELSE @]

Jrelease(c, k, failReason) ==
    LET cr == Request("jrelease", c, k)
        srerr == getij(cr)
    IN
    /\ Free(c)
    /\ IF srerr # "" THEN Refuse(cr, srerr)
       ELSE
           LET job == Released(jobs[k], failReason) IN
           /\ jobs' = [jobs EXCEPT ![k] = job]
           /\ IF job.UntilBuried <= 0 THEN Bury(k) ELSE Release(k)
           /\ sgroupcounts' = decrementGroupCount(job.schedulerGroup)
           /\ resp' = Response("")
           /\ killAccepted' = killAccepted \ {k}
           /\ UNCHANGED polling
           /\ UnchangedStore /\ UnchangedFlags

\* -------------------------------------------------------------- jbury
Jbury(c, k, failReason) ==
    LET cr == Request("jbury", c, k)
        srerr == getij(cr)
    IN
    /\ Free(c)
    /\ IF srerr # "" THEN Refuse(cr, srerr)
       ELSE
           /\ jobs' = [jobs EXCEPT ![k] = [@ EXCEPT !.FailReason = failReason]]
           /\ Bury(k)
           /\ sgroupcounts' = decrementGroupCount(jobs[k].schedulerGroup)
           /\ resp' = Response("")
           /\ killAccepted' = killAccepted \ {k}
           /\ UNCHANGED polling
           /\ UnchangedStore /\ UnchangedFlags

\* -------------------------------------------------------------- jkick
KeysRequest(method, hasKeys, keys) ==
    [Request(method, ZeroClient, NilJob) EXCEPT
        !.Keys = IF hasKeys THEN keys ELSE NilKeys]

\* lines 411-415: the job of an item that was kicked
kickedAsIs(job) == job

kicked(job) == [job EXCEPT !.UntilBuried = job.Retries + 1]

RECURSIVE kickLoop(_, _)
kickLoop(keys, st) ==
    IF keys = <<>> THEN st
    ELSE
        LET jobkey == Head(keys)
            next ==
                IF jobkey \notin DOMAIN st.jobs \/ jobkey \notin st.bury THEN st
                ELSE [st EXCEPT !.bury = @ \ {jobkey},
                                !.ready = @ \cup {jobkey},
                                !.jobs = [@ EXCEPT ![jobkey] = kicked(@)],
                                !.count = @ + 1]
        IN kickLoop(Tail(keys), next)

Jkick(hasKeys, keys) ==
    LET cr == KeysRequest("jkick", hasKeys, keys) IN
    IF ~hasKeys THEN Refuse(cr, ErrBadRequest)
    ELSE
        LET st == kickLoop(keys, [jobs |-> jobs, ready |-> readyQ, bury |-> buryQ,
                                  count |-> 0])
        IN
        /\ jobs' = st.jobs
        /\ readyQ' = st.ready
        /\ buryQ' = st.bury
        /\ sgroupcounts' = IF st.count > 0
                           THEN GroupDemand(st.jobs, st.ready, runQ, delayQ)
                           ELSE sgroupcounts
        /\ resp' = [Response("") EXCEPT !.Existed = st.count]
        /\ UNCHANGED <<delayQ, runQ, depQ, waitingOn, ttrLeft, polling, killAccepted>>
        /\ UnchangedStore /\ UnchangedFlags

\* --------------------------------------------------------------- jdel
\* lines 426-439: jdel goes on to remove an item only when it is in Bury and
\* no item depends on it
deletableBuried(jobkey, bury) == jobkey \in bury

deletable(jobkey, bury) == jobkey \in bury /\ ~HasDependents(jobkey)

RECURSIVE delLoop(_, _)
delLoop(keys, st) ==
    IF keys = <<>> THEN st
    ELSE
        LET jobkey == Head(keys)
            next ==
                IF jobkey \notin DOMAIN st.jobs \/ ~deletable(jobkey, st.bury) THEN st
                ELSE [st EXCEPT !.bury = @ \ {jobkey},
                                !.jobs = Drop(@, jobkey),
                                !.live = @ \ {jobkey},
                                !.count = @ + 1]
        IN delLoop(Tail(keys), next)

Jdel(hasKeys, keys) ==
    LET cr == KeysRequest("jdel", hasKeys, keys) IN
    IF ~hasKeys THEN Refuse(cr, ErrBadRequest)
    ELSE
        LET st == delLoop(keys, [jobs |-> jobs, bury |-> buryQ, live |-> liveB,
                                 count |-> 0])
        IN
        /\ jobs' = st.jobs
        /\ buryQ' = st.bury
        /\ liveB' = st.live
        /\ killAccepted' = killAccepted \cap DOMAIN st.jobs
        /\ resp' = [Response("") EXCEPT !.Existed = st.count]
        /\ UNCHANGED <<delayQ, readyQ, runQ, depQ, waitingOn, ttrLeft, completeB,
                       sgroupcounts, polling>>
        /\ UnchangedFlags

\* -------------------------------------------------------------- jkill
\* killJob: a job in Run has its killCalled flag set
RECURSIVE killLoop(_, _)
killLoop(keys, st) ==
    IF keys = <<>> THEN st
    ELSE
        LET jobkey == Head(keys)
            next ==
                IF jobkey \notin DOMAIN st.jobs \/ jobkey \notin runQ THEN st
                ELSE [st EXCEPT !.jobs = [@ EXCEPT ![jobkey] =
                                    [@ EXCEPT !.killCalled = TRUE]],
                                !.killed = @ \cup {jobkey},
                                !.count = @ + 1]
        IN killLoop(Tail(keys), next)

Jkill(hasKeys, keys) ==
    LET cr == KeysRequest("jkill", hasKeys, keys) IN
    IF ~hasKeys THEN Refuse(cr, ErrBadRequest)
    ELSE
        LET st == killLoop(keys, [jobs |-> jobs, killed |-> {}, count |-> 0]) IN
        /\ jobs' = st.jobs
        /\ killAccepted' = killAccepted \cup st.killed
        /\ resp' = [Response("") EXCEPT !.Existed = st.count]
        /\ UNCHANGED <<delayQ, readyQ, runQ, buryQ, depQ, waitingOn, ttrLeft,
                       sgroupcounts, polling>>
        /\ UnchangedStore /\ UnchangedFlags

\* -------------------------------------------------------------- getbc
\* getJobsByKeys: the jobs of the keys that are in the queue or in the complete
\* bucket
Getbc(hasKeys, keys) ==
    LET cr == KeysRequest("getbc", hasKeys, keys) IN
    IF ~hasKeys THEN Refuse(cr, ErrBadRequest)
    ELSE
        /\ resp' = [Response("") EXCEPT
                       !.Jobs = {keys[i] : i \in DOMAIN keys} \cap (Items \cup completeB)]
        /\ UnchangedQueue /\ UnchangedStore /\ UnchangedFlags
        /\ UNCHANGED <<sgroupcounts, polling, killAccepted>>

\* ------------------------------------------------- methods that are not
\* lines 497-498: a Method that is none of the cases
Methods ==
    {"ping", "sstats", "backup", "drain", "shutdown", "add", "reserve", "jstart",
     "jtouch", "jend", "jarchive", "jrelease", "jbury", "jkick", "jdel", "jkill",
     "getbc", "getbr", "getin"}
OtherMethods == {"jpause", ""}

Unknown(method) ==
    /\ method \notin Methods
    /\ Refuse(Request(method, ZeroClient, NilJob), ErrUnknownCommand)

\* ----------------------------------------------------------- the user
\* lines 44-56: the queue the request names is resolved, and then a request
\* whose User is empty or not one of allowedUsers is answered WrongUser, before
\* its Method is looked at
allowedUsers == {"owner"}
Users == {"", "owner", "guest"}
QueueNames == {CmdsQueue, "other"}

Denied(user, name, method) ==
    /\ user = "" \/ user \notin allowedUsers
    /\ getOrCreateQueue(name)
    /\ resp' = Response(ErrWrongUser)
    /\ UnchangedQueue /\ UnchangedStore
    /\ UNCHANGED <<rc, drain, killRunners, closed, cast, schedVars, handlerVars>>
    /\ UNCHANGED <<sgroupcounts, polling, killAccepted>>

\* -------------------------------------------------------------- drain
Drain ==
    /\ ~drain
    /\ drain' = TRUE
    /\ resp' = Response("")
    /\ getOrCreateQueue(CmdsQueue)
    /\ UnchangedQueue /\ UnchangedStore
    /\ UNCHANGED <<rc, killRunners, sgroupcounts, polling, killAccepted, schedVars,
                   handlerVars, closed, cast>>

\* the server is told to have its runners killed
KillRunners ==
    /\ ~killRunners
    /\ killRunners' = TRUE
    /\ UnchangedQueue /\ UnchangedStore
    /\ UNCHANGED <<rc, drain, sgroupcounts, polling, killAccepted, queues, resp,
                   schedVars, handlerVars, closed, cast>>

\* q.Destroy(): the queue is closed, and q.Reserve returns ErrQueueClosed from
\* then on
QueueDestroy ==
    /\ ~closed
    /\ closed' = TRUE
    /\ UnchangedQueue /\ UnchangedStore
    /\ UNCHANGED <<rc, drain, killRunners, sgroupcounts, polling, killAccepted,
                   queues, resp, cast, schedVars, handlerVars>>

\* ------------------------------------------------------------- locks
\* The mutexes a request takes, in the order of the code, for a request that is
\* let through. A call into the queue, the scheduler or the server's own
\* helpers takes the mutex of what it calls and gives it back before it
\* returns: q.Get, q.Reserve, q.Touch and the like the queue's, item.Stats()
\* the item's, s.scheduler.HostToID the scheduler's.
LockRank == [Server |-> 1, Scheduler |-> 2, Queue |-> 3, Item |-> 3, Job |-> 4]
LockNames == DOMAIN LockRank

Lock(l) == <<"Lock", l>>
Unlock(l) == <<"Unlock", l>>
Within(l) == <<Lock(l), Unlock(l)>>

\* lines 532-551
getijLocks == Within("Queue") \o Within("Item")

\* lines 555-610
itemToJobLocks == <<Lock("Job")>> \o Within("Item") \o <<Unlock("Job")>>

LockSteps ==
    [reserve |-> Within("Queue") \o Within("Job") \o Within("Queue")
                   \o itemToJobLocks,
     jstart |-> getijLocks \o <<Lock("Job")>> \o Within("Scheduler")
                   \o <<Unlock("Job")>>,
     jtouch |-> getijLocks \o Within("Job") \o Within("Server")
                   \o Within("Queue") \o Within("Job"),
     jend |-> getijLocks \o Within("Job"),
     jarchive |-> getijLocks \o <<Lock("Job")>> \o Within("Item")
                   \o <<Unlock("Job")>> \o Within("Queue") \o Within("Server")
                   \o Within("Server"),
     jrelease |-> getijLocks \o Within("Job") \o Within("Queue")
                   \o Within("Server"),
     jbury |-> getijLocks \o Within("Job") \o Within("Queue") \o Within("Server"),
     jkick |-> Within("Queue") \o Within("Item") \o Within("Queue")
                   \o Within("Job")]

LockMethods == DOMAIN LockSteps

NotLocking == [method |-> "", at |-> 0, held |-> <<>>]

HeldBy(c) == {locking[c].held[i] : i \in DOMAIN locking[c].held}

UnchangedButLocks ==
    /\ UnchangedQueue /\ UnchangedStore /\ UnchangedSettings
    /\ UNCHANGED <<sgroupcounts, polling, killAccepted, archiving, resp>>

\* the server starts on a request of client c
LockBegin(c, m) ==
    /\ locking[c] = NotLocking
    /\ locking' = [locking EXCEPT ![c] = [method |-> m, at |-> 1, held |-> <<>>]]
    /\ UnchangedButLocks

\* the request's next step is done, and the request with its last: a mutex is
\* taken only when no other request holds it
LockStep(c) ==
    /\ locking[c] # NotLocking
    /\ LET l == locking[c]
           steps == LockSteps[l.method]
           op == steps[l.at]
           held == IF op[1] = "Lock" THEN Append(l.held, op[2])
                   ELSE SelectSeq(l.held, LAMBDA h : h # op[2])
       IN /\ op[1] = "Lock" => \A d \in Clients \ {c} : op[2] \notin HeldBy(d)
          /\ locking' = [locking EXCEPT ![c] =
                IF l.at = Len(steps) THEN NotLocking
                ELSE [l EXCEPT !.at = @ + 1, !.held = held]]
    /\ UnchangedButLocks

\* ------------------------------------------------------------- timers
\* a second passes for an item in Run
TTRTick(k) ==
    /\ k \in runQ
    /\ ttrLeft[k] > 1
    /\ ttrLeft' = [ttrLeft EXCEPT ![k] = @ - 1]
    /\ UNCHANGED <<jobs, delayQ, readyQ, runQ, buryQ, depQ, waitingOn>>
    /\ UnchangedStore /\ UnchangedFlags
    /\ UNCHANGED <<sgroupcounts, polling, killAccepted, resp>>

\* the TTR of an item in Run expires: a job that was started and has not
\* exited is flagged Lost and stays in Run, any other is released to Delay
TTRExpire(k) ==
    /\ k \in runQ
    /\ ttrLeft[k] = 1
    /\ IF jobs[k].StartTime /\ ~jobs[k].Exited
       THEN /\ jobs' = [jobs EXCEPT ![k] = [@ EXCEPT !.Lost = TRUE, !.EndTime = TRUE]]
            /\ ttrLeft' = [ttrLeft EXCEPT ![k] = TTRTicks]
            /\ UNCHANGED <<delayQ, runQ>>
       ELSE /\ runQ' = runQ \ {k}
            /\ delayQ' = delayQ \cup {k}
            /\ ttrLeft' = [ttrLeft EXCEPT ![k] = 0]
            /\ UNCHANGED jobs
    /\ UNCHANGED <<readyQ, buryQ, depQ, waitingOn>>
    /\ UnchangedStore /\ UnchangedFlags
    /\ killAccepted' = killAccepted \cap runQ'
    /\ UNCHANGED <<sgroupcounts, polling, resp>>

\* the delay of an item in Delay expires
DelayExpire(k) ==
    /\ k \in delayQ
    /\ delayQ' = delayQ \ {k}
    /\ readyQ' = readyQ \cup {k}
    /\ sgroupcounts' = GroupDemand(jobs, readyQ \cup {k}, runQ, delayQ \ {k})
    /\ UNCHANGED <<jobs, runQ, buryQ, depQ, waitingOn, ttrLeft>>
    /\ UnchangedStore /\ UnchangedFlags
    /\ UNCHANGED <<polling, killAccepted, resp>>

\* ============================================================ scheduler
\* The runCmd calls, the ids of the standins they make (one for each call that
\* decides to spawn) and of the servers these become
Calls == 1..MaxCalls
NoServer == 0
NoStandin == 0

\* 10 * time.Second, the time added to time.Now() for nextSpawnTime
SpawnGap == 10

\* every command asks for the same resources; a server of the flavor chosen
\* for it, and so a standin of that flavor, has room for perServer of them
HasSpaceFor(sid) ==
    IF servers[sid].used < perServer THEN perServer - servers[sid].used ELSE 0
hasSpaceFor(sid) ==
    IF standins[sid] < perServer THEN perServer - standins[sid] ELSE 0

UnchangedServer == UNCHANGED srvVars

\* the requirements every command has and the flavor determineFlavor picks for
\* them: a flavor with less disk than the command asks for
CmdReq == [Cores |-> 1, RAM |-> 1, Disk |-> 3]
SpawnFlavor == [Cores |-> 4, RAM |-> 4, Disk |-> 1]
\* line 531
volumeAffected == CmdReq.Disk > SpawnFlavor.Disk

\* lines 543-547: what a call that is to spawn reserves of the quota
reserve(r) ==
    [Cores |-> r.Cores + SpawnFlavor.Cores,
     RAM |-> r.RAM + SpawnFlavor.RAM,
     Volume |-> IF volumeAffected THEN r.Volume + CmdReq.Disk ELSE r.Volume]

\* lines 645-649 and 658-662: the same, given back
unreserveCores(r) == [r EXCEPT !.Cores = @ - SpawnFlavor.Cores]

unreserve(r) ==
    [Cores |-> r.Cores - SpawnFlavor.Cores,
     RAM |-> r.RAM - SpawnFlavor.RAM,
     Volume |-> IF volumeAffected THEN r.Volume - CmdReq.Disk ELSE r.Volume]

\* lines 525-553: the call decides to spawn a server. When no other call is
\* spawning or waiting to, it takes the turn and calls provider.Spawn (line
\* 607) straight away; otherwise it waits for its turn
SpawnOrWait(c, svs) ==
    LET numSpawning == waitingToSpawn + spawningNow IN
    /\ IF numSpawning = 0
       THEN /\ nextSpawnTime' = now + SpawnGap
            /\ spawningNow' = spawningNow + 1
            /\ spawnLog' = Append(spawnLog, now)
            /\ pc' = [pc EXCEPT ![c] = "spawning"]
            /\ UNCHANGED waitingToSpawn
       ELSE /\ waitingToSpawn' = waitingToSpawn + 1
            /\ pc' = [pc EXCEPT ![c] = "waiting"]
            /\ UNCHANGED <<nextSpawnTime, spawningNow, spawnLog>>
    /\ reservedInstances' = reservedInstances + 1
    /\ reserved' = reserve(reserved)
    /\ standins' = Put(standins, c, 1)
    /\ servers' = svs
    /\ server' = [server EXCEPT ![c] = NoServer]
    /\ UNCHANGED <<latch, waitOn, visited, stopSent>>

\* lines 512-521: the call allocates on a standin with room and waits for the
\* server it stands for
Attach(c, sid, svs, got) ==
    /\ standins' = [standins EXCEPT ![sid] = @ + 1]
    /\ waitOn' = [waitOn EXCEPT ![c] = sid]
    /\ visited' = [visited EXCEPT ![c] = @ \cup {sid}]
    /\ pc' = [pc EXCEPT ![c] = "attached"]
    /\ servers' = svs
    /\ server' = [server EXCEPT ![c] = got]
    /\ UNCHANGED <<nextSpawnTime, waitingToSpawn, spawningNow, reservedInstances,
                   reserved, latch, stopSent, spawnLog>>

\* lines 669-670: the call allocates on the server it has, and runs the command
Allocate(c, sid, svs) ==
    /\ servers' = [svs EXCEPT ![sid].used = @ + 1]
    /\ server' = [server EXCEPT ![c] = sid]
    /\ pc' = [pc EXCEPT ![c] = "running"]
    /\ UNCHANGED <<nextSpawnTime, waitingToSpawn, spawningNow, reservedInstances,
                   reserved, standins, latch, waitOn, visited, stopSent, spawnLog>>

\* lines 497-508: the loop over opst.servers deletes the destroyed servers it
\* comes by and stops at the first server with room (the order is that of a Go
\* map, so any); destroyed is the set of servers it deletes, found the server
\* it stops at
Destroyed == {sid \in DOMAIN servers : servers[sid].destroyed}
Roomy == {sid \in DOMAIN servers \ Destroyed : HasSpaceFor(sid) > 0}

\* lines 353-452: canCount, for the requirements every command has: the room
\* on the servers there are, and PerServer for each server that could be
\* spawned within the quota. The instances in use are, from the specification
\* of the provider, the servers spawned and not destroyed.
QuotaMaxInstances == 2
UsedInstances == Cardinality({sid \in DOMAIN servers : ~servers[sid].destroyed})
RECURSIVE SpaceOn(_)
SpaceOn(S) ==
    IF S = {} THEN 0
    ELSE LET sid == CHOOSE x \in S : TRUE IN HasSpaceFor(sid) + SpaceOn(S \ {sid})
canCount ==
    LET existing == SpaceOn(DOMAIN servers \ Destroyed)
        remainingInstances == QuotaMaxInstances - UsedInstances - reservedInstances
    IN IF remainingInstances < 1 THEN existing
       ELSE existing + remainingInstances * perServer

\* a call of runCmd, up to the first time it gives up the mutex
RunCmd(c) ==
    /\ pc[c] = "idle"
    /\ IF Roomy # {}
       THEN \E found \in Roomy, deleted \in SUBSET Destroyed :
               Allocate(c, found, [sid \in DOMAIN servers \ deleted |-> servers[sid]])
       ELSE LET svs == [sid \in DOMAIN servers \ Destroyed |-> servers[sid]]
                roomy == {sid \in DOMAIN standins : hasSpaceFor(sid) > 0}
            IN IF roomy # {}
               THEN \E sid \in roomy : Attach(c, sid, svs, NoServer)
               ELSE SpawnOrWait(c, svs)
    /\ UNCHANGED <<now, reqVars>>
    /\ UnchangedServer

\* lines 211-232: waitForServer goes on polling until the standin has worked or
\* failed (line 220), and then returns the standin's server (line 223), which
\* worked has set to the server spawned for it and which is nil otherwise
resolvedAlways(sid) == TRUE
resolved(sid) == latch[sid] # ""
waitForServerNil(sid) == NoServer
waitForServer(sid) == IF latch[sid] = "work" THEN sid ELSE NoServer

\* lines 517-521: waitForServer returns the server of the standin, or nil when
\* it failed; the loop over opst.standins goes on from there, to another
\* standin with room or to its end, after which the call spawns if it has no
\* server (line 525) and else allocates on the server it has (line 669)
Resume(c) ==
    /\ pc[c] = "attached"
    /\ resolved(waitOn[c])
    /\ LET got == waitForServer(waitOn[c])
           roomy == {sid \in DOMAIN standins \ visited[c] : hasSpaceFor(sid) > 0}
       IN \/ \E sid \in roomy : Attach(c, sid, servers, got)
          \/ /\ got = NoServer
             /\ SpawnOrWait(c, servers)
          \/ /\ got # NoServer
             /\ IF got \in DOMAIN servers
                THEN Allocate(c, got, servers)
                ELSE \* the server was deleted from opst.servers meanwhile
                     /\ server' = [server EXCEPT ![c] = got]
                     /\ pc' = [pc EXCEPT ![c] = "running"]
                     /\ UNCHANGED <<nextSpawnTime, waitingToSpawn, spawningNow,
                                    reservedInstances, reserved, servers, standins,
                                    latch, waitOn, visited, stopSent, spawnLog>>
    /\ UNCHANGED <<now, reqVars>>
    /\ UnchangedServer

\* a promotion that leaves the call counted among the waiting
PromoteUncounted(c) ==
    /\ pc[c] = "waiting"
    /\ now > nextSpawnTime
    /\ nextSpawnTime' = now + SpawnGap
    /\ spawningNow' = spawningNow + 1
    /\ spawnLog' = Append(spawnLog, now)
    /\ pc' = [pc EXCEPT ![c] = "spawning"]
    /\ UNCHANGED <<now, quietVars, waitingToSpawn, reservedInstances, servers, standins,
                   latch, waitOn, visited, server, stopSent>>
    /\ UnchangedServer

\* lines 563-573: a tick of a waiting call's ticker after nextSpawnTime; it
\* takes the turn and calls provider.Spawn
Promote(c) ==
    /\ pc[c] = "waiting"
    /\ now > nextSpawnTime
    /\ nextSpawnTime' = now + SpawnGap
    /\ waitingToSpawn' = waitingToSpawn - 1
    /\ spawningNow' = spawningNow + 1
    /\ spawnLog' = Append(spawnLog, now)
    /\ pc' = [pc EXCEPT ![c] = "spawning"]
    /\ UNCHANGED <<now, quietVars, reservedInstances, servers, standins, latch, waitOn,
                   visited, server, stopSent>>
    /\ UnchangedServer

\* a signal that every waiting call receives
StopWaitingAll(c, sender) ==
    /\ pc[c] = "waiting"
    /\ pc[sender] = "signalling"
    /\ pc' = [d \in Calls |->
                IF pc[d] = "waiting" THEN "stopped"
                ELSE IF d = sender THEN "returned" ELSE pc[d]]
    /\ stopSent' = stopSent + Cardinality({d \in Calls : pc[d] = "waiting"})
    /\ UNCHANGED <<now, quietVars, nextSpawnTime, waitingToSpawn, spawningNow,
                   reservedInstances, servers, standins, latch, waitOn, visited,
                   server, spawnLog>>
    /\ UnchangedServer

\* lines 576-577 and 687: a waiting call receives what a call that has run its
\* command sends on stopWaitingToSpawn, a channel without buffer: the send and
\* the receive are one step of the two calls
StopWaiting(c, sender) ==
    /\ pc[c] = "waiting"
    /\ pc[sender] = "signalling"
    /\ pc' = [pc EXCEPT ![c] = "stopped", ![sender] = "returned"]
    /\ stopSent' = stopSent + 1
    /\ UNCHANGED <<now, quietVars, nextSpawnTime, waitingToSpawn, spawningNow,
                   reservedInstances, servers, standins, latch, waitOn, visited,
                   server, spawnLog>>
    /\ UnchangedServer

\* lines 578-590: the call that was told to stop waiting gives up
GiveUp(c) ==
    /\ pc[c] = "stopped"
    /\ waitingToSpawn' = waitingToSpawn - 1
    /\ latch' = [latch EXCEPT ![c] = "fail"]
    /\ standins' = Drop(standins, c)
    /\ pc' = [pc EXCEPT ![c] = "failed"]
    /\ stopSent' = stopSent - 1
    /\ UNCHANGED <<now, quietVars, nextSpawnTime, spawningNow, reservedInstances, servers,
                   waitOn, visited, server, spawnLog>>
    /\ UnchangedServer

\* lines 641-654: provider.Spawn, or the check of the new server, failed
SpawnFailed(c) ==
    /\ pc[c] = "spawning"
    /\ spawningNow' = spawningNow - 1
    /\ reservedInstances' = reservedInstances - 1
    /\ reserved' = unreserve(reserved)
    /\ latch' = [latch EXCEPT ![c] = "fail"]
    /\ standins' = Drop(standins, c)
    /\ pc' = [pc EXCEPT ![c] = "failed"]
    /\ UNCHANGED <<now, reqVars, nextSpawnTime, waitingToSpawn, servers, waitOn, visited,
                   server, stopSent, spawnLog>>
    /\ UnchangedServer

\* lines 656-670: provider.Spawn returned the new server
SpawnWorked(c) ==
    /\ pc[c] = "spawning"
    /\ spawningNow' = spawningNow - 1
    /\ reservedInstances' = reservedInstances - 1
    /\ reserved' = unreserve(reserved)
    /\ servers' = Put(servers, c, [used |-> 1, destroyed |-> FALSE])
    /\ latch' = [latch EXCEPT ![c] = "work"]
    /\ standins' = Drop(standins, c)
    /\ server' = [server EXCEPT ![c] = c]
    /\ pc' = [pc EXCEPT ![c] = "running"]
    /\ UNCHANGED <<now, reqVars, nextSpawnTime, waitingToSpawn, waitOn, visited, stopSent,
                   spawnLog>>
    /\ UnchangedServer

\* lines 683-692: the command has run; the server is released, and a call
\* waiting to spawn, if there is one, is signalled to stop waiting
CmdDone(c) ==
    /\ pc[c] = "running"
    /\ servers' = IF server[c] \in DOMAIN servers
                  THEN [servers EXCEPT ![server[c]].used = @ - 1]
                  ELSE servers
    /\ pc' = [pc EXCEPT ![c] = IF waitingToSpawn > 0 THEN "signalling" ELSE "returned"]
    /\ UNCHANGED <<now, quietVars, nextSpawnTime, waitingToSpawn, spawningNow,
                   reservedInstances, standins, latch, waitOn, visited, server,
                   stopSent, spawnLog>>
    /\ UnchangedServer

\* the provider destroys a server that runs nothing (its keep time has passed)
Destroy(sid) ==
    /\ sid \in DOMAIN servers
    /\ ~servers[sid].destroyed
    /\ servers[sid].used = 0
    /\ servers' = [servers EXCEPT ![sid].destroyed = TRUE]
    /\ UNCHANGED <<now, quietVars, nextSpawnTime, waitingToSpawn, spawningNow,
                   reservedInstances, standins, latch, pc, waitOn, visited, server,
                   stopSent, spawnLog>>
    /\ UnchangedServer

\* a second passes
Tick ==
    /\ now < MaxTime
    /\ now' = now + 1
    /\ UNCHANGED <<quietVars, nextSpawnTime, waitingToSpawn, spawningNow, reservedInstances,
                   servers, standins, latch, pc, waitOn, visited, server, stopSent,
                   spawnLog>>
    /\ UnchangedServer

\* lines 235-324 (initialize), as far as runCmd reads what it sets
\* ----------------------------------------------------------- reqCheck
\* line 40
unquotadVal == 1000000

\* what a command can require of each resource, the maxima a quota can have
\* (0 for no limit) and the flavors the provider can have
Amounts == {1, 3, unquotadVal + 1}
Requirements == [RAM : Amounts, Cores : Amounts, Disk : Amounts]
Maxima == {0, 2}
Quotas == [MaxRAM : Maxima, MaxCores : Maxima, MaxVolume : Maxima]
Flavors == [Cores : {1, 4}, RAM : {1, 4}]
NoQuota == [MaxRAM |-> 0, MaxCores |-> 0, MaxVolume |-> 0]
NoCheck == [req |-> [RAM |-> 0, Cores |-> 0, Disk |-> 0], err |-> ""]
ErrImpossible == "Impossible"

\* lines 265-279: the quota maxima initialize keeps
quotaMaxRAMAsGiven == quota.MaxRAM

quotaMaxRAM == IF quota.MaxRAM = 0 THEN unquotadVal ELSE quota.MaxRAM
quotaMaxCores == IF quota.MaxCores = 0 THEN unquotadVal ELSE quota.MaxCores
quotaMaxVolume == IF quota.MaxVolume = 0 THEN unquotadVal ELSE quota.MaxVolume

\* provider.CheapestServerFlavor: the flavors, among those whose name matches
\* the regex, with the cores and the RAM asked for
CapableFlavors(cores, ram) == {f \in flavors : f.Cores >= cores /\ f.RAM >= ram}

\* lines 341-349: no flavor is Impossible
determineFlavor(r) ==
    IF CapableFlavors(r.Cores, r.RAM) = {} THEN ErrImpossible ELSE ""

\* lines 328-337
reqCheck(r) ==
    IF r.RAM > quotaMaxRAM \/ r.Cores > quotaMaxCores \/ r.Disk > quotaMaxVolume
    THEN ErrImpossible
    ELSE determineFlavor(r)

\* ---------------------------------------------------------------- canCount
NoCount == [req |-> [RAM |-> 0, Cores |-> 0, Disk |-> 0], quotaErr |-> FALSE,
            servers |-> <<>>, count |-> 0]
NoReserved == [Cores |-> 0, RAM |-> 0, Volume |-> 0]

\* the quotas, with what is in use of them, the flavors with their disk, and
\* the servers canCount is called with
CountMaxima == {0, 2, 8}
CountUsed == {0, 3}
CountQuotas ==
    {[MaxRAM |-> mr, MaxCores |-> mc, MaxVolume |-> mv,
      UsedRAM |-> u, UsedCores |-> u, UsedVolume |-> u] :
        mr \in CountMaxima, mc \in CountMaxima, mv \in {0, 8}, u \in CountUsed}
CountFlavors == {[Cores |-> 1, RAM |-> 2, Disk |-> 1], [Cores |-> 4, RAM |-> 4, Disk |-> 4]}
CountServers ==
    UNION {[S -> [used : {1}, destroyed : BOOLEAN]] : S \in SUBSET (1..2)}

\* s.config.OSRAM, the least RAM a server is brought up with
OSRAM == 2

\* lines 458-481
reqForSpawn(req) == IF req.RAM < OSRAM THEN [req EXCEPT !.RAM = OSRAM] ELSE req

\* provider.CheapestServerFlavor: the smallest of the capable flavors
cheapestFlavor(cores, ram) ==
    CHOOSE f \in CapableFlavors(cores, ram) :
        \A g \in CapableFlavors(cores, ram) : f.Cores + f.RAM <= g.Cores + g.RAM

smaller(n, spawnable) == IF n < spawnable THEN n ELSE spawnable

\* lines 389-405: what is left of a quota
remainingUnreserved(max, used, held) == IF max > 0 THEN max - used ELSE unquotadVal

remaining(max, used, held) == IF max > 0 THEN max - used - held ELSE unquotadVal

\* lines 428-449: how many of the commands a new server has room for
reqsPerServer(flavor, req, checkVolume) ==
    LET byCores == flavor.Cores \div req.Cores
        byRAM == IF req.RAM > 0 THEN smaller(flavor.RAM \div req.RAM, byCores)
                 ELSE byCores
        byDisk == IF req.Disk > 0
                  THEN smaller(IF checkVolume THEN 1 ELSE flavor.Disk \div req.Disk,
                               byRAM)
                  ELSE byRAM
    IN IF byCores > 1 THEN byDisk ELSE byCores

\* lines 353-452, for the servers canCount finds in s.servers; quotaErr is
\* provider.GetQuota() failing
canCountOn(req, quotaErr) ==
    LET existing == SpaceOn(DOMAIN servers \ Destroyed)
        spawnReq == reqForSpawn(req)
    IN IF determineFlavor(spawnReq) # "" \/ quotaErr THEN existing
       ELSE
       LET flavor == cheapestFlavor(spawnReq.Cores, spawnReq.RAM)
           remainingInstances ==
               IF QuotaMaxInstances > 0
               THEN QuotaMaxInstances - UsedInstances - reservedInstances
               ELSE unquotadVal
           remainingRAM == remaining(quota.MaxRAM, quota.UsedRAM, reserved.RAM)
           remainingCores == remaining(quota.MaxCores, quota.UsedCores, reserved.Cores)
           checkVolume == req.Disk > flavor.Disk
           remainingVolume ==
               IF checkVolume
               THEN remaining(quota.MaxVolume, quota.UsedVolume, reserved.Volume)
               ELSE unquotadVal
       IN IF \/ remainingInstances < 1
             \/ remainingRAM < flavor.RAM
             \/ remainingCores < flavor.Cores
             \/ remainingVolume < req.Disk
          THEN existing
          ELSE
          LET byRAM == smaller(remainingRAM \div flavor.RAM, remainingInstances)
              byCores == smaller(remainingCores \div flavor.Cores, byRAM)
              byVolume == IF checkVolume
                          THEN smaller(remainingVolume \div req.Disk, byCores)
                          ELSE byCores
              spawnable == IF remainingInstances > 1 THEN byVolume
                           ELSE remainingInstances
          IN existing + spawnable * reqsPerServer(flavor, spawnReq, checkVolume)

\* the dispatch loop asks how many commands with the requirements req can run
CanCount(req, quotaErr) ==
    /\ counted' = [req |-> req, quotaErr |-> quotaErr, servers |-> servers,
                   count |-> canCountOn(req, quotaErr)]
    /\ servers' = [sid \in DOMAIN servers \ Destroyed |-> servers[sid]]
    /\ UNCHANGED <<now, perServer, quota, flavors, checked, standinServer,
                   nextSpawnTime,
                   waitingToSpawn, spawningNow, reservedInstances, reserved,
                   standins, latch, pc, waitOn, visited, server, stopSent, spawnLog>>
    /\ UnchangedServer

\* ----------------------------------------------------------------- standin
\* the requirements a standin is asked about, and the disk it is made with
SpaceReqs == [Cores : {1, 2}, RAM : {0, 1, 3}, Disk : {0, 1, 3}]
SpaceDisks == {1, 4}
NoReq == [RAM |-> 0, Cores |-> 0, Disk |-> 0]
NoSpace == [panic |-> FALSE, canDo |-> 0]
NilStandin == [flavor |-> NoReq, disk |-> 0, usedRAM |-> 0, usedCores |-> 0,
               usedDisk |-> 0, did |-> "", req |-> NoReq, space |-> NoSpace]

\* lines 155-157
newStandin(flavor, disk) == [NilStandin EXCEPT !.flavor = flavor, !.disk = disk]

\* lines 160-166
allocate(s, req) ==
    [s EXCEPT !.usedCores = @ + req.Cores,
              !.usedRAM = @ + req.RAM,
              !.usedDisk = @ + req.Disk]

\* a division of integers, which panics when the divisor is 0
Panic == [panic |-> TRUE, canDo |-> 0]
CanDo(n) == [panic |-> FALSE, canDo |-> n]

\* lines 169-187
standinHasSpaceFor(s, req) ==
    IF \/ s.flavor.Cores - s.usedCores < req.Cores
       \/ s.flavor.RAM - s.usedRAM < req.RAM
       \/ s.disk - s.usedDisk < req.Disk
    THEN CanDo(0)
    ELSE IF req.Cores = 0 THEN Panic
    ELSE LET canDo == (s.flavor.Cores - s.usedCores) \div req.Cores IN
         IF canDo > 1
         THEN IF req.RAM = 0 THEN Panic
              ELSE LET byRAM == smaller((s.flavor.RAM - s.usedRAM) \div req.RAM, canDo) IN
                   IF req.Disk = 0 THEN Panic
                   ELSE CanDo(smaller((s.disk - s.usedDisk) \div req.Disk, byRAM))
         ELSE CanDo(canDo)

UnchangedOpst ==
    UNCHANGED <<now, nextSpawnTime, waitingToSpawn, spawningNow, reservedInstances,
                reserved, servers, standins, latch, pc, waitOn, visited, server,
                stopSent, spawnLog>>

UnchangedProvider == UNCHANGED <<perServer, quota, flavors, checked, counted>>

\* line 550: runCmd makes the standin of the server it is to spawn
NewStandin(flavor, disk) ==
    /\ standinServer' = newStandin(flavor, disk)
    /\ UnchangedProvider /\ UnchangedOpst /\ UnchangedServer

\* line 513: a call of runCmd asks the standin whether it has room
StandinHasSpaceFor(req) ==
    /\ standinServer # NilStandin
    /\ standinServer' = [standinServer EXCEPT
            !.did = "hasSpaceFor", !.req = req,
            !.space = standinHasSpaceFor(standinServer, req)]
    /\ UnchangedProvider /\ UnchangedOpst /\ UnchangedServer

\* lines 513-514: the call allocates on the standin that has room for it
StandinAllocate(req) ==
    /\ standinServer # NilStandin
    /\ ~standinHasSpaceFor(standinServer, req).panic
    /\ standinHasSpaceFor(standinServer, req).canDo > 0
    /\ standinServer' = [allocate(standinServer, req) EXCEPT
            !.did = "allocate", !.req = req, !.space = NoSpace]
    /\ UnchangedProvider /\ UnchangedOpst /\ UnchangedServer

\* schedule() has the requirements of a command checked
ReqCheck(r) ==
    /\ checked' = [req |-> r, err |-> reqCheck(r)]
    /\ UNCHANGED <<now, perServer, quota, flavors, counted, standinServer, nextSpawnTime, waitingToSpawn,
                   spawningNow, reservedInstances, reserved, servers, standins, latch, pc,
                   waitOn, visited, server, stopSent, spawnLog>>
    /\ UnchangedServer

\* lines 235-324 (initialize), as far as runCmd and reqCheck read what it sets
ProviderInit(room, q, fs) ==
    /\ perServer = room
    /\ quota = q
    /\ flavors = fs
    /\ checked = NoCheck
    /\ counted = NoCount
    /\ standinServer = NilStandin

\* lines 235-324 (initialize): the fields of opst runCmd works with, here with
\* ri reservations standing and the servers svs
OpstState(ri, svs) ==
    /\ now = 0
    /\ nextSpawnTime = 0
    /\ waitingToSpawn = 0
    /\ spawningNow = 0
    /\ reservedInstances = ri
    /\ reserved = IF ri = 0 THEN NoReserved ELSE reserve(NoReserved)
    /\ servers = svs
    /\ standins = <<>>
    /\ latch = [c \in Calls |-> ""]
    /\ pc = [c \in Calls |-> "idle"]
    /\ waitOn = [c \in Calls |-> NoStandin]
    /\ visited = [c \in Calls |-> {}]
    /\ server = [c \in Calls |-> NoServer]
    /\ stopSent = 0
    /\ spawnLog = <<>>

OpstInit == OpstState(0, <<>>)

SchedulerInit(room) == ProviderInit(room, NoQuota, Flavors) /\ OpstInit

\* -------------------------------------------------------- specification
QueueInit(runnerCmd) ==
    /\ jobs = <<>>
    /\ delayQ = {} /\ readyQ = {} /\ runQ = {} /\ buryQ = {} /\ depQ = {}
    /\ waitingOn = [k \in Keys |-> {}]
    /\ ttrLeft = [k \in Keys |-> 0]
    /\ sgroupcounts = [g \in Groups |-> 0]
    /\ rc = runnerCmd
    /\ drain = FALSE
    /\ killRunners = FALSE
    /\ liveB = {} /\ completeB = {}
    /\ polling = [c \in Clients |-> NotPolling]
    /\ killAccepted = {}
    /\ queues = {}
    /\ archiving = [c \in Clients |-> NotArchiving]
    /\ locking = [c \in Clients |-> NotLocking]
    /\ closed = FALSE
    /\ cast = <<>>
    /\ resp = Response("")

ServerInit(runnerCmd) == QueueInit(runnerCmd) /\ SchedulerInit(PerServer)

\* the server started with a runner command, so with a job scheduler
Init == ServerInit(TRUE)

\* The specifications are the server under the requests of one concern each.

\* the add requests for the job of key 1 alone, and the lists of its key
JobLists1 == {jl \in JobLists : Len(jl) = 1 /\ jl[1].key \in StartKeys}
AddInputs1 == {in \in AddInputs : in[3] \in JobLists1 \cup {<<>>}}
KeyLists1 == {keys \in KeyLists : \A i \in DOMAIN keys : keys[i] \in StartKeys}

\* Spec: the life of one job, from add to jarchive or jdel, under every request
\* that two clients can send about it, with the timers.
Next ==
    \/ \E in \in AddInputs1 : Add(in[1], in[2], in[3], in[4], in[5])
    \/ \E c \in Clients \cup {ZeroClient}, timeout \in 1..MaxTimeout :
          Reserve(c, NoGroup, FALSE, timeout)
    \/ \E c \in Clients : PollTick(c)
    \/ \E c \in Clients : PollTimeout(c)
    \/ \E c \in Clients, k \in StartKeys \cup {NilJob}, in \in StartInputs :
          Jstart(c, k, in[1], in[2])
    \/ \E c \in Clients, k \in StartKeys \cup {NilJob} : Jtouch(c, k)
    \/ \E c \in Clients, k \in StartKeys \cup {NilJob}, exitcode \in {0, 1} :
          Jend(c, k, exitcode)
    \/ \E c \in Clients, k \in StartKeys \cup {NilJob}, archived \in BOOLEAN :
          Jarchive(c, k, archived)
    \/ \E c \in Clients, k \in StartKeys \cup {NilJob} : Jrelease(c, k, "")
    \/ \E c \in Clients, k \in StartKeys \cup {NilJob} : Jbury(c, k, "")
    \/ \E hasKeys \in BOOLEAN, keys \in KeyLists1 : Jkick(hasKeys, keys)
    \/ \E hasKeys \in BOOLEAN, keys \in KeyLists1 : Jdel(hasKeys, keys)
    \/ \E k \in StartKeys : TTRTick(k)
    \/ \E k \in StartKeys : TTRExpire(k)
    \/ \E k \in StartKeys : DelayExpire(k)

Spec == Init /\ [][Next]_vars

\* QueueSpec: two jobs, the second depending on the first, and one worker that
\* runs the first to a clean exit.
Worker == CHOOSE c \in Clients : TRUE

\* the add requests for jobs of distinct keys that can all be retried
RetryLists == {jl \in JobLists :
                  /\ Cardinality({jl[i].key : i \in DOMAIN jl}) = Len(jl)
                  /\ \A i \in DOMAIN jl :
                        jl[i].key \in StartKeys => jl[i].Retries = MaxRetries}

QueueNext ==
    \/ \E jl \in RetryLists, ic \in BOOLEAN : Add(TRUE, TRUE, jl, TRUE, ic)
    \/ \E g \in Groups \cup {NoGroup}, timeout \in 1..MaxTimeout :
          Reserve(Worker, g, FALSE, timeout)
    \/ PollTick(Worker)
    \/ PollTimeout(Worker)
    \/ \E k \in StartKeys : Jstart(Worker, k, 1, "host")
    \/ \E k \in Keys : Jtouch(Worker, k)
    \/ \E k \in StartKeys : Jend(Worker, k, 0)
    \/ \E k \in Keys : Jarchive(Worker, k, TRUE)
    \/ \E k \in Keys : Jrelease(Worker, k, "")
    \/ \E k \in Keys : Jbury(Worker, k, "")
    \/ \E keys \in KeyLists : Jkick(TRUE, keys)
    \/ \E keys \in KeyLists : Jdel(TRUE, keys)
    \/ \E k \in Keys : TTRTick(k)
    \/ \E k \in Keys : TTRExpire(k)
    \/ \E k \in Keys : DelayExpire(k)

QueueSpec == Init /\ [][QueueNext]_vars

\* AddSpec: add requests of every kind, for jobs without retries and of one
\* scheduler group, to a queue whose jobs the worker runs and archives, or
\* buries for them to be deleted.
PlainLists == {jl \in JobLists : \A i \in DOMAIN jl :
                  jl[i].Retries = 0 /\ jl[i].group = 1}
PlainAddInputs == {in \in AddInputs : in[3] \in PlainLists \cup {<<>>}}

AddNext ==
    \/ \E in \in PlainAddInputs : Add(in[1], in[2], in[3], in[4], in[5])
    \/ \E timeout \in 1..MaxTimeout : Reserve(Worker, NoGroup, FALSE, timeout)
    \/ PollTick(Worker)
    \/ PollTimeout(Worker)
    \/ \E k \in Keys : Jstart(Worker, k, 1, "host")
    \/ \E k \in Keys : Jend(Worker, k, 0)
    \/ \E k \in Keys : Jarchive(Worker, k, TRUE)
    \/ \E k \in Keys : Jbury(Worker, k, "")
    \/ \E keys \in KeyLists : Jdel(TRUE, keys)

AddSpec == Init /\ [][AddNext]_vars

\* KillSpec: one job and its worker, with jkill and the server-wide kill.
KillNext ==
    \/ \E jl \in JobLists1 : Add(TRUE, TRUE, jl, TRUE, FALSE)
    \/ \E timeout \in 1..MaxTimeout : Reserve(Worker, NoGroup, FALSE, timeout)
    \/ PollTick(Worker)
    \/ PollTimeout(Worker)
    \/ \E k \in StartKeys : Jstart(Worker, k, 1, "host")
    \/ \E c \in Clients, k \in StartKeys : Jtouch(c, k)
    \/ \E k \in StartKeys : Jrelease(Worker, k, "")
    \/ \E hasKeys \in BOOLEAN, keys \in KeyLists : Jkill(hasKeys, keys)
    \/ KillRunners
    \/ \E k \in StartKeys : TTRTick(k)
    \/ \E k \in StartKeys : TTRExpire(k)
    \/ \E k \in StartKeys : DelayExpire(k)

KillSpec == Init /\ [][KillNext]_vars

\* ReserveSpec: reserve requests of every kind against a queue that fills and
\* empties, with the server draining or not.
\* the add requests for one job without retries
OneJobLists == {jl \in JobLists : Len(jl) = 1 /\ jl[1].Retries = 0}

ReserveInit == \E runnerCmd \in BOOLEAN : ServerInit(runnerCmd)

ReserveNext ==
    \/ \E jl \in OneJobLists : Add(TRUE, TRUE, jl, TRUE, FALSE)
    \/ \E c \in Clients \cup {ZeroClient}, g \in Groups \cup {NoGroup},
          first \in BOOLEAN, timeout \in 0..MaxTimeout :
          Reserve(c, g, first, timeout)
    \/ \E c \in Clients : PollTick(c)
    \/ \E c \in Clients : PollTimeout(c)
    \/ \E c \in Clients, k \in Keys : Jrelease(c, k, "")
    \/ Drain
    \/ \E k \in Keys : DelayExpire(k)

ReserveSpec == ReserveInit /\ [][ReserveNext]_vars

\* SchedSpec: runCmd calls on one scheduler, each for a command of the same
\* requirements, with the provider's spawns working or failing and time passing.
SchedNext ==
    \/ \E c \in Calls : RunCmd(c)
    \/ \E c \in Calls : Resume(c)
    \/ \E c \in Calls : Promote(c)
    \/ \E c \in Calls, sender \in Calls : StopWaiting(c, sender)
    \/ \E c \in Calls : GiveUp(c)
    \/ \E c \in Calls : SpawnFailed(c)
    \/ \E c \in Calls : SpawnWorked(c)
    \/ \E c \in Calls : CmdDone(c)
    \/ \E sid \in Calls : Destroy(sid)
    \/ Tick

SchedSpec == Init /\ [][SchedNext]_vars

\* BurySpec: two jobs, the second depending on the first, that a worker
\* reserves, starts and releases or buries, and jkick and jdel requests for
\* every list of keys.
BuryNext ==
    \/ \E jl \in RetryLists, ic \in BOOLEAN : Add(TRUE, TRUE, jl, TRUE, ic)
    \/ \E timeout \in 1..MaxTimeout : Reserve(Worker, NoGroup, FALSE, timeout)
    \/ PollTick(Worker)
    \/ PollTimeout(Worker)
    \/ \E k \in StartKeys : Jstart(Worker, k, 1, "host")
    \/ \E k \in Keys : Jrelease(Worker, k, "")
    \/ \E k \in Keys : Jbury(Worker, k, "")
    \/ \E hasKeys \in BOOLEAN, keys \in KeyLists : Jkick(hasKeys, keys)
    \/ \E hasKeys \in BOOLEAN, keys \in KeyLists : Jdel(hasKeys, keys)
    \/ \E k \in Keys : DelayExpire(k)

BurySpec == Init /\ [][BuryNext]_vars

\* ArchiveSpec: the life of one job with jarchive taken step by step, so that
\* the other requests and the timers come between its steps.
ArchiveNext ==
    \/ \E jl \in JobLists1 : Add(TRUE, TRUE, jl, TRUE, FALSE)
    \/ \E c \in Clients : Reserve(c, NoGroup, FALSE, 0)
    \/ \E c \in Clients, k \in StartKeys : Jstart(c, k, 1, "host")
    \/ \E c \in Clients, k \in StartKeys : Jend(c, k, 0)
    \/ \E c \in Clients, k \in StartKeys : JarchiveCheck(c, k)
    \/ \E c \in Clients, archived \in BOOLEAN : JarchiveStore(c, archived)
    \/ \E c \in Clients : JarchiveRemove(c)
    \/ \E c \in Clients : JarchiveCount(c)
    \/ \E c \in Clients, k \in StartKeys : Jbury(c, k, "")
    \/ \E keys \in KeyLists1 : Jdel(TRUE, keys)
    \/ \E k \in StartKeys : TTRTick(k)
    \/ \E k \in StartKeys : TTRExpire(k)
    \/ \E k \in StartKeys : DelayExpire(k)

ArchiveSpec == Init /\ [][ArchiveNext]_vars

\* CloseSpec: reserve requests against a queue that fills and is then closed.
AddOpen(jl) == ~closed /\ Add(TRUE, TRUE, jl, TRUE, FALSE)

CloseNext ==
    \/ \E jl \in OneJobLists : AddOpen(jl)
    \/ \E c \in Clients, timeout \in 0..MaxTimeout : Reserve(c, NoGroup, FALSE, timeout)
    \/ \E c \in Clients : PollTick(c)
    \/ \E c \in Clients : PollClosed(c)
    \/ \E c \in Clients : PollTimeout(c)
    \/ QueueDestroy

CloseSpec == Init /\ [][CloseNext]_vars

\* PollSpec: the same, with time passing: the stop channel that time.After made
\* for a polling reserve request fires while the request polls
PollSpec == CloseSpec /\ \A c \in Clients : WF_vars(PollTimeout(c))

\* LockSpec: the requests of two clients about one job, as the mutexes they
\* take and give back.
LockNext ==
    \/ \E c \in Clients, m \in LockMethods : LockBegin(c, m)
    \/ \E c \in Clients : LockStep(c)

LockSpec == Init /\ [][LockNext]_vars

\* CountSpec: canCount for every requirement, under quotas partly used and
\* partly reserved, with every set of flavors and with servers live and destroyed.
CountInit ==
    \E q \in CountQuotas, fs \in SUBSET CountFlavors, ri \in 0..1, svs \in CountServers :
        QueueInit(TRUE) /\ ProviderInit(PerServer, q, fs) /\ OpstState(ri, svs)

CountNext == \E r \in Requirements, quotaErr \in BOOLEAN : CanCount(r, quotaErr)

CountSpec == CountInit /\ [][CountNext]_vars

\* SpaceSpec: one standin of each flavor, asked for room and allocated on for
\* requirements with and without RAM and disk.
SpaceNext ==
    \/ \E flavor \in CountFlavors, disk \in SpaceDisks : NewStandin(flavor, disk)
    \/ \E req \in SpaceReqs : StandinHasSpaceFor(req)
    \/ \E req \in SpaceReqs : StandinAllocate(req)

SpaceSpec == Init /\ [][SpaceNext]_vars

\* ReqSpec: reqCheck for every requirement, under every quota and with every
\* set of flavors.
ReqInit ==
    \E q \in Quotas, fs \in SUBSET Flavors :
        QueueInit(TRUE) /\ ProviderInit(PerServer, q, fs) /\ OpstInit

ReqNext == \E r \in Requirements : ReqCheck(r)

ReqSpec == ReqInit /\ [][ReqNext]_vars


\* UserSpec: requests of users the server allows and of others, for the queue
\* the workers use and for another, with a worker that runs the job.
UserNext ==
    \/ \E user \in Users, name \in QueueNames, method \in Methods \cup OtherMethods :
          Denied(user, name, method)
    \/ \E jl \in OneJobLists : Add(TRUE, TRUE, jl, TRUE, FALSE)
    \/ \E timeout \in 1..MaxTimeout : Reserve(Worker, NoGroup, FALSE, timeout)
    \/ PollTick(Worker)
    \/ PollTimeout(Worker)
    \/ \E k \in Keys : Jstart(Worker, k, 1, "host")
    \/ \E k \in Keys : Jend(Worker, k, 0)
    \/ \E k \in Keys : Jarchive(Worker, k, TRUE)
    \/ \E k \in Keys : Jbury(Worker, k, "")
    \/ \E keys \in KeyLists : Jkick(TRUE, keys)

UserSpec == Init /\ [][UserNext]_vars

\* ErrorSpec: every request about one job that two clients can send, well
\* formed or not, and the timers of the queue.
ErrorRequests ==
    \/ \E in \in AddInputs1 : Add(in[1], in[2], in[3], in[4], in[5])
    \/ \E c \in Clients \cup {ZeroClient}, timeout \in 1..MaxTimeout :
          Reserve(c, NoGroup, FALSE, timeout)
    \/ \E c \in Clients : PollTick(c)
    \/ \E c \in Clients : PollTimeout(c)
    \/ \E c \in Clients, k \in StartKeys \cup {NilJob}, in \in StartInputs :
          Jstart(c, k, in[1], in[2])
    \/ \E c \in Clients, k \in StartKeys \cup {NilJob} : Jtouch(c, k)
    \/ \E c \in Clients, k \in StartKeys \cup {NilJob} : Jend(c, k, 0)
    \/ \E c \in Clients, k \in StartKeys \cup {NilJob} : Jarchive(c, k, TRUE)
    \/ \E c \in Clients, k \in StartKeys \cup {NilJob} : Jrelease(c, k, "")
    \/ \E c \in Clients, k \in StartKeys \cup {NilJob} : Jbury(c, k, "")
    \/ \E hasKeys \in BOOLEAN, keys \in KeyLists1 : Jkick(hasKeys, keys)
    \/ \E hasKeys \in BOOLEAN, keys \in KeyLists1 : Jdel(hasKeys, keys)
    \/ \E hasKeys \in BOOLEAN, keys \in KeyLists1 : Jkill(hasKeys, keys)
    \/ \E hasKeys \in BOOLEAN, keys \in KeyLists1 : Getbc(hasKeys, keys)
    \/ \E method \in OtherMethods : Unknown(method)

ErrorNext ==
    \/ ErrorRequests
    \/ \E k \in StartKeys : TTRTick(k)
    \/ \E k \in StartKeys : TTRExpire(k)
    \/ \E k \in StartKeys : DelayExpire(k)

ErrorSpec == Init /\ [][ErrorNext]_vars

\* QuotaSpec: runCmd calls that the dispatch loop makes only while canCount
\* says there is room for one more command, with no time passing; the
\* specification has the loop consult canCount before it calls runCmd.
Schedule(c) ==
    /\ canCount > 0
    /\ RunCmd(c)

QuotaNext ==
    \/ \E c \in Calls : Schedule(c)
    \/ \E c \in Calls : Resume(c)
    \/ \E c \in Calls, sender \in Calls : StopWaiting(c, sender)
    \/ \E c \in Calls : GiveUp(c)
    \/ \E c \in Calls : SpawnFailed(c)
    \/ \E c \in Calls : SpawnWorked(c)
    \/ \E c \in Calls : CmdDone(c)
    \/ \E sid \in Calls : Destroy(sid)

QuotaSpec == Init /\ [][QuotaNext]_vars

\* StandinSpec: runCmd calls with servers of a flavor that has room for
\* PerServer commands or for one more, with no time passing; a call that waits
\* for a standin looks at it again and again (the ticker of waitForServer).
StandinInit ==
    \E room \in PerServer..(PerServer + 1) : QueueInit(TRUE) /\ SchedulerInit(room)

StandinNext ==
    \/ \E c \in Calls : RunCmd(c)
    \/ \E c \in Calls : Resume(c)
    \/ \E c \in Calls, sender \in Calls : StopWaiting(c, sender)
    \/ \E c \in Calls : GiveUp(c)
    \/ \E c \in Calls : SpawnFailed(c)
    \/ \E c \in Calls : SpawnWorked(c)
    \/ \E c \in Calls : CmdDone(c)
    \/ \E sid \in Calls : Destroy(sid)

StandinSpec ==
    StandinInit /\ [][StandinNext]_vars /\ \A c \in Calls : WF_vars(Resume(c))

\* WaitSpec: runCmd calls with servers of a flavor that has room for one
\* command only, so that no call finds room on a standin and every call but
\* the first waits its turn to spawn, with no time passing.
WaitInit == QueueInit(TRUE) /\ SchedulerInit(1)

WaitNext ==
    \/ \E c \in Calls : RunCmd(c)
    \/ \E c \in Calls, sender \in Calls : StopWaiting(c, sender)
    \/ \E c \in Calls : GiveUp(c)
    \/ \E c \in Calls : SpawnFailed(c)
    \/ \E c \in Calls : SpawnWorked(c)
    \/ \E c \in Calls : CmdDone(c)
    \/ \E sid \in Calls : Destroy(sid)

WaitSpec == WaitInit /\ [][WaitNext]_vars

\* SignalSpec: the same, with every call that has started going on: the
\* provider's Spawn and the command end, and a goroutine that can take its next
\* step takes it. Whether another runCmd call comes is left open.
SignalSpec ==
    /\ WaitSpec
    /\ \A c \in Calls :
          /\ WF_vars(SpawnFailed(c) \/ SpawnWorked(c))
          /\ WF_vars(CmdDone(c))
          /\ WF_vars(GiveUp(c))
          /\ WF_vars(\E sender \in Calls : StopWaiting(c, sender))

\* ================================================================ claims

\* the sub-queues of the queue, and the number of them holding a key
SubQueues == <<delayQ, readyQ, runQ, buryQ, depQ>>
NumSubQueues(k) == Cardinality({i \in DOMAIN SubQueues : k \in SubQueues[i]})

\* the step is a jarchive request for k that the server answers without error
Archived(k) == \E c \in Clients : Jarchive(c, k, TRUE) /\ resp'.Err = ""

\* C1: in every reachable state each live job key (in the live bucket, or
\* holding an item of the queue) is in exactly one of the sub-queues Delay,
\* Ready, Run, Bury and Dependency and every other key in none; and the job a
\* jarchive has just archived is in none of them.
C1_OneSubQueue ==
    /\ [](\A k \in Keys : NumSubQueues(k) = IF k \in liveB \cup Items THEN 1 ELSE 0)
    /\ [][\A k \in Keys : Archived(k) => (NumSubQueues(k) = 0)']_vars

\* job 1 has been archived, which moved its dependent from Dependency to Ready
C1_Witness ==
    /\ 1 \in completeB /\ 1 \notin Items
    /\ 2 \in readyQ /\ NumSubQueues(2) = 1
    /\ waitingOn[2] = {}

\* the step is a request of one of the six job methods, for k, from client c
JRequest(c, k) ==
    \/ \E in \in StartInputs : Jstart(c, k, in[1], in[2])
    \/ Jtouch(c, k)
    \/ \E exitcode \in {0, 1} : Jend(c, k, exitcode)
    \/ \E archived \in BOOLEAN : Jarchive(c, k, archived)
    \/ \E failReason \in FailReasons : Jrelease(c, k, failReason)
    \/ \E failReason \in FailReasons : Jbury(c, k, failReason)

\* the step leaves the queue, the store and the group counts as they are
Untouched == UnchangedQueue /\ UnchangedStore /\ UNCHANGED sgroupcounts

\* C2: a jstart, jtouch, jend, jarchive, jrelease or jbury request for a job in
\* Run that carries another ClientID than the one the job is reserved by is
\* answered MustReserve, and leaves the job's fields and its sub-queue (and all
\* the rest of the queue and the store) unchanged.
C2_MustReserve ==
    [][\A c \in Clients, k \in Keys :
          (k \in runQ /\ jobs[k].ReservedBy # c /\ JRequest(c, k))
          => (resp'.Err = ErrMustReserve /\ Untouched)]_vars

\* a request of the client that does not hold job 1 was refused, after the job
\* had been started by the client that holds it
C2_Witness ==
    /\ resp.Err = ErrMustReserve
    /\ 1 \in runQ /\ jobs[1].ReservedBy \in Clients /\ jobs[1].StartTime

\* the step is a jrelease request for k from the client it is reserved by
Releasing(c, k) ==
    /\ k \in runQ /\ jobs[k].ReservedBy = c
    /\ \E failReason \in FailReasons : Jrelease(c, k, failReason)

\* C3: UntilBuried is Retries + 1 when the job enters the queue and after a
\* jkick; a jrelease takes one off it when jstart was called in the current
\* reservation (StartTime is set) and leaves it alone otherwise; the jrelease
\* that brings it to zero moves the job Run -> Bury and every other one
\* Run -> Delay, so that a job outside Bury always has releases left and a job
\* of R retries is buried by the release after its (R+1)th start.
C3_UntilBuried ==
    /\ [](\A k \in Items :
            /\ jobs[k].UntilBuried \in 0..(jobs[k].Retries + 1)
            /\ k \notin buryQ => jobs[k].UntilBuried >= 1)
    /\ [][\A k \in Keys :
            ((k \notin Items \/ k \in buryQ) /\ k \in readyQ' \cup depQ')
            => jobs'[k].UntilBuried = jobs'[k].Retries + 1]_vars
    /\ [][\A c \in Clients, k \in Keys :
            Releasing(c, k)
            => /\ jobs'[k].UntilBuried =
                     jobs[k].UntilBuried - (IF jobs[k].StartTime THEN 1 ELSE 0)
               /\ IF jobs'[k].UntilBuried = 0
                  THEN k \in buryQ' /\ k \notin delayQ'
                  ELSE k \in delayQ' /\ k \notin buryQ']_vars

\* the job of key 1 was added with MaxRetries retries and has been buried by
\* the last of its releases
C3_Witness ==
    /\ 1 \in buryQ
    /\ jobs[1].Retries = MaxRetries /\ jobs[1].UntilBuried = 0
    /\ jobs[1].StartTime /\ resp = Response("")

\* the step is a jarchive request for k from client c
Archiving(c, k) == \E archived \in BOOLEAN : Jarchive(c, k, archived)

\* C4: a step that writes k to the complete bucket or takes it from Run out of
\* the queue is a jarchive of a job in Run that exited with code 0 and has both
\* times, answered without error to the client the job is reserved by; a
\* jarchive for a job no longer in Run is answered BadJob, one for a job in Run
\* that has not cleanly exited is refused, and both leave the queue and the
\* store as they are.
C4_Jarchive ==
    [][\A k \in Keys :
          /\ ((k \notin completeB /\ k \in completeB') \/ (k \in runQ /\ k \notin Items'))
             => /\ k \in runQ
                /\ jobs[k].Exited /\ jobs[k].Exitcode = 0
                /\ jobs[k].StartTime /\ jobs[k].EndTime
                /\ Archiving(jobs[k].ReservedBy, k)
                /\ resp'.Err = ""
          /\ \A c \in Clients :
                /\ (k \in Items \ runQ /\ Archiving(c, k))
                   => (resp'.Err = ErrBadJob /\ Untouched)
                /\ (k \in runQ
                      /\ ~(jobs[k].Exited /\ jobs[k].Exitcode = 0
                           /\ jobs[k].StartTime /\ jobs[k].EndTime)
                      /\ Archiving(c, k))
                   => (resp'.Err \in {ErrBadRequest, ErrMustReserve} /\ Untouched)
                /\ (resp'.Err = "" /\ Archiving(c, k))
                   => (k \in completeB' /\ k \notin Items')]_vars

\* the job of key 1 ended with exit code 1 and its jarchive was refused
C4_Witness ==
    /\ resp.Err = ErrBadRequest
    /\ 1 \in runQ /\ jobs[1].Exited /\ jobs[1].Exitcode = 1
    /\ jobs[1].StartTime /\ jobs[1].EndTime
    /\ completeB = {}

\* the step is a reserve request with Timeout = 0 from client c, made while
\* the Ready sub-queue is empty
ReservingNoWait(c, group, first) == readyQ = {} /\ Reserve(c, group, first, 0)

Adding(jl) == \E ignoreComplete \in BOOLEAN : Add(TRUE, TRUE, jl, TRUE, ignoreComplete)

KeySet(jl) == {jl[i].key : i \in DOMAIN jl}
DistinctKeys(jl) == Cardinality(KeySet(jl)) = Len(jl)

\* C6, as claimed: adding N jobs of distinct keys to an empty queue (of a
\* server that has completed nothing) yields Added = N and N items in Ready.
C6_AllReady ==
    [][\A jl \in PlainLists :
          (Items = {} /\ completeB = {} /\ DistinctKeys(jl) /\ Adding(jl))
          => (resp'.Added = Len(jl) /\ Cardinality(readyQ') = Len(jl))]_vars

\* C6, amended: adding jobs of N distinct keys, none of them complete, to an
\* empty queue yields Added = N and N items in the queue, each in Ready or,
\* when a job it depends on is in the queue, in Dependency; the jobs of the
\* request that repeat a key are counted in Existed. Adding jobs whose keys are
\* all in the queue yields Added = 0 and Existed = their number, and leaves
\* the queue and the store as they are.
C6_Idempotent ==
    [][\A jl \in PlainLists :
          /\ (Items = {} /\ KeySet(jl) \cap completeB = {} /\ Adding(jl))
             => /\ resp'.Added = Cardinality(KeySet(jl))
                /\ resp'.Existed = Len(jl) - Cardinality(KeySet(jl))
                /\ Items' = KeySet(jl)
                /\ readyQ' \cup depQ' = KeySet(jl)
                /\ delayQ' \cup runQ' \cup buryQ' = {}
                /\ \A k \in Keys : k \in depQ' <=> waitingOn'[k] \cap Items' # {}
          /\ (KeySet(jl) \subseteq Items /\ Adding(jl))
             => (resp'.Added = 0 /\ resp'.Existed = Len(jl) /\ Untouched)]_vars

\* both jobs were added, the second waiting for the first, and added again
C6_Witness ==
    /\ resp.Added = 0 /\ resp.Existed = 2
    /\ readyQ = {1} /\ depQ = {2} /\ Items = {1, 2}

\* C7: a jtouch from the client a job in Run is reserved by returns
\* KillCalled = true and leaves the TTR alone when a jkill has been accepted for
\* the job since it was reserved (and no jtouch answered since) or killRunners
\* is set; when neither the job's flag nor the server's is set it returns
\* KillCalled = false and renews the TTR.
C7_KillCalled ==
    [][\A c \in Clients, k \in Keys :
          (k \in runQ /\ jobs[k].ReservedBy = c /\ Jtouch(c, k))
          => /\ (k \in killAccepted \/ killRunners)
                => (resp'.KillCalled /\ ttrLeft' = ttrLeft)
             /\ (~jobs[k].killCalled /\ ~killRunners /\ k \notin killAccepted)
                => (~resp'.KillCalled /\ ttrLeft'[k] = TTRTicks)]_vars

\* C8: for every scheduler group, sgroupcounts is the number of the group's
\* items in Ready, Run and Delay.
C8_GroupCounts ==
    \A g \in Groups : sgroupcounts[g] = CountIn(jobs, readyQ \cup runQ \cup delayQ, g)

\* C9: a job's ReservedBy holds a client id if and only if the job is in Run,
\* that is, if its reported state is reserved, running or lost.
C9_ReservedBy ==
    \A k \in Items :
        /\ jobs[k].ReservedBy # ZeroClient <=> k \in runQ
        /\ k \in runQ <=> itemToJobState(k) \in {"reserved", "running", "lost"}

\* C10: any two calls of provider.Spawn by the scheduler are at least 10
\* seconds apart.
C10_SpawnGap ==
    \A i, j \in DOMAIN spawnLog :
        i < j => spawnLog[j] - spawnLog[i] >= SpawnGap

\* C11: the instances reserved and the instances in use are together never
\* more than the quota allows (the cores, RAM and volume reserved are those of
\* the instances reserved, every command having the same requirements).
C11_QuotaSafety == reservedInstances + UsedInstances <= QuotaMaxInstances

\* C12: when a call told to stop waiting to spawn gives up, its standin is
\* marked failed and removed, waitingToSpawn goes down by one, the call returns
\* an error, and reservedInstances is back to what it was before the call
\* reserved, one less than it is.
C12_StopUndoesReservation ==
    [][\A c \in Calls :
          GiveUp(c) => /\ latch'[c] = "fail"
                       /\ c \notin DOMAIN standins'
                       /\ waitingToSpawn' = waitingToSpawn - 1
                       /\ pc'[c] = "failed"
                       /\ reservedInstances' = reservedInstances - 1]_vars

\* C13: a call's waitForServer returns only once its standin has worked or
\* failed, with the server the standin worked with (the one spawned for it, now
\* among the servers) or with nil after it failed; a standin that has worked or
\* failed stays so, which makes the outcome the same for all its callers; and
\* every caller of a standin that has worked or failed returns.
C13_SameOutcome ==
    /\ [][\A c \in Calls :
            /\ Resume(c) => \/ latch[waitOn[c]] = "work" /\ server'[c] = waitOn[c]
                            \/ latch[waitOn[c]] = "fail" /\ server'[c] = NoServer
            /\ latch[c] # "" => latch'[c] = latch[c]
            /\ SpawnWorked(c) => latch'[c] = "work" /\ c \in DOMAIN servers']_vars
    /\ \A c, sid \in Calls :
          (pc[c] = "attached" /\ waitOn[c] = sid /\ latch[sid] # "")
             ~> ~(pc[c] = "attached" /\ waitOn[c] = sid)

\* two calls have returned from waitForServer on the standin of a third with
\* the server spawned for it, and run their commands on it
C13_Witness ==
    \E c1, c2, sid \in Calls :
        /\ c1 # c2 /\ sid \notin {c1, c2}
        /\ latch[sid] = "work"
        /\ visited[c1] = {sid} /\ visited[c2] = {sid}
        /\ pc[c1] = "running" /\ pc[c2] = "running"
        /\ server[c1] = sid /\ server[c2] = sid

\* the step answers a reserve request of client c: at once, or after the
\* request has waited for an item or for its timeout
ReserveAnswered(c) ==
    \/ \E group \in Groups \cup {NoGroup}, first \in BOOLEAN, timeout \in 0..MaxTimeout :
          Reserve(c, group, first, timeout) /\ ~polling'[c].on
    \/ PollTick(c)
    \/ PollTimeout(c)

\* C14: while the server drains, every reserve request (of a client with an
\* id) is answered with no job and no error, and moves no item from Ready to
\* Run.
C14_DrainReserve ==
    [][drain => \A c \in Clients :
          ReserveAnswered(c) => /\ resp' = Response("")
                                /\ readyQ' = readyQ /\ runQ' = runQ]_vars

\* C15: while the server drains, an add request creates no job and places none
\* in a sub-queue.
C15_DrainAdd ==
    [][drain => \A jl \in OneJobLists :
          Add(TRUE, TRUE, jl, TRUE, FALSE)
          => /\ DOMAIN jobs' = DOMAIN jobs
             /\ UnchangedQueue]_vars

\* C16: a request whose User is empty or not one of allowedUsers is answered
\* WrongUser whatever its Method, changes nothing in the queue, the store or
\* the group counts, and makes no queue.
C16_WrongUser ==
    [][\A user \in Users, name \in QueueNames, method \in Methods \cup OtherMethods :
          Denied(user, name, method)
          => /\ resp'.Err = ErrWrongUser
             /\ Untouched
             /\ queues' = queues]_vars

\* the error tokens that tell a client its request was wrong
ClientErrors == {ErrBadRequest, ErrBadJob, ErrMustReserve, ErrUnknownCommand}

\* C17: a request answered with BadRequest, BadJob, MustReserve or
\* UnknownCommand leaves the fields of every job, the sub-queue of every item,
\* the group counts and the store as they were: a step that changes any of
\* them and ends with such an answer as the last one sent is not a request.
C17_NoSideEffects ==
    [][(resp'.Err \in ClientErrors /\ ~Untouched) => ~ErrorRequests]_vars

\* a request has been answered BadRequest while the job was in Run, reserved
\* and not started, and counted in its group
C17_Witness ==
    /\ resp.Err = ErrBadRequest
    /\ 1 \in runQ /\ ~jobs[1].StartTime /\ jobs[1].ReservedBy \in Clients
    /\ sgroupcounts[jobs[1].schedulerGroup] > 0
    /\ ~jobs[1].Exited

\* the keys of a list of keys
KeysIn(keys) == {keys[i] : i \in DOMAIN keys}

OverQuota(r) ==
    \/ r.RAM > (IF quota.MaxRAM = 0 THEN unquotadVal ELSE quota.MaxRAM)
    \/ r.Cores > (IF quota.MaxCores = 0 THEN unquotadVal ELSE quota.MaxCores)
    \/ r.Disk > (IF quota.MaxVolume = 0 THEN unquotadVal ELSE quota.MaxVolume)

NoFlavorFor(r) == ~ \E f \in flavors : f.Cores >= r.Cores /\ f.RAM >= r.RAM

C20_ReqCheck ==
    checked # NoCheck =>
        /\ checked.err = ErrImpossible <=>
               (OverQuota(checked.req) \/ NoFlavorFor(checked.req))
        /\ ~(OverQuota(checked.req) \/ NoFlavorFor(checked.req)) =>
               checked.err = ""

\* reqCheck let requirements through under a quota without a maximum for RAM
C20_Witness ==
    /\ checked # NoCheck
    /\ quota.MaxRAM = 0 /\ quota.MaxCores # 0
    /\ checked.req.RAM = 3
    /\ checked.err = ""


\* the step is one of client c's jarchive request
ArchiveStep(c) ==
    \/ \E k \in StartKeys : JarchiveCheck(c, k)
    \/ \E archived \in BOOLEAN : JarchiveStore(c, archived)
    \/ JarchiveRemove(c)
    \/ JarchiveCount(c)

\* C21: a jarchive takes its job's item out of the queue only once the job is
\* in the complete bucket, and changes the scheduler group's count only in a
\* step after the one that took the item out, which is the step it answers
\* without error in; when the removal fails it answers InternalError, leaves
\* the count as it is and ends.
C21_ArchiveOrder ==
    [][\A c \in Clients :
          ArchiveStep(c) =>
              LET k == archiving[c].key IN
              /\ (k \in Items /\ k \notin Items') => k \in completeB
              /\ (archiving'[c].pc = "decrementGroupCount")
                 => (k \in Items /\ k \notin Items')
              /\ (sgroupcounts' # sgroupcounts
                     \/ (archiving[c].pc # "" /\ archiving'[c] = NotArchiving
                           /\ resp'.Err = ""))
                 => archiving[c].pc = "decrementGroupCount"
              /\ (archiving[c].pc = "Remove" /\ k \notin Items)
                 => /\ resp'.Err = ErrInternalError
                    /\ sgroupcounts' = sgroupcounts
                    /\ archiving'[c] = NotArchiving]_vars


\* a jarchive found its job's item gone from the queue: the job is in the
\* complete bucket, and the count of its group is what the item's burial left
C21_Witness ==
    /\ resp.Err = ErrInternalError
    /\ 1 \in completeB /\ 1 \notin Items
    /\ \A c \in Clients : archiving[c] = NotArchiving


\* C22: a jarchive that the store fails is answered DBError and leaves the job
\* as it was before the request: in Run, with the State and the FailReason it
\* had.
C22_Rollback ==
    [][\A c \in Clients, k \in StartKeys :
          (Jarchive(c, k, FALSE) /\ resp'.Err = ErrDBError)
          => /\ k \in runQ'
             /\ jobs'[k].State = jobs[k].State
             /\ jobs'[k].FailReason = jobs[k].FailReason]_vars


\* C23: a reserve request that finds the queue closed, at its first q.Reserve
\* or at one of its polling, is answered QueueClosed.
C23_QueueClosed ==
    [][\A c \in Clients :
          (closed /\ (PollClosed(c)
                        \/ \E timeout \in 0..MaxTimeout :
                              Reserve(c, NoGroup, FALSE, timeout)))
          => resp'.Err = ErrQueueClosed]_vars


\* C24: a reserve request with a positive Timeout that polls ends, and ends in
\* one step that is one of three: it is given the item that has become ready,
\* it is answered QueueClosed, or, its Timeout over, it is answered with
\* neither a job nor an error; its polling is over with that step.
C24_PollEnds ==
    /\ \A c \in Clients :
          (polling[c].on /\ polling[c].timeout > 0) ~> ~polling[c].on
    /\ [][\A c \in Clients :
            (polling[c].on /\ polling[c].timeout > 0 /\ polling'[c] # polling[c])
            => /\ polling'[c] = NotPolling
               /\ \/ PollTick(c) /\ resp'.Err = "" /\ resp'.Job \in runQ'
                  \/ PollClosed(c) /\ resp' = Response(ErrQueueClosed)
                  \/ PollTimeout(c) /\ resp' = Response("")]_vars

\* a reserve request with a Timeout polled until the Timeout was over, with
\* nothing ready all along
C24_Witness ==
    /\ \A c \in Clients : ~polling[c].on
    /\ resp = Response("")
    /\ Items = {} /\ ~closed
    /\ queues # {}


\* C25: a jtouch from the client a job in Run is reserved by, with neither the
\* job's kill flag nor the server's set: when the job is flagged Lost the TTR
\* starts anew, the flag and the EndTime are cleared and two lost-to-running
\* events are sent, one for the job's RepGroup and one for all groups; when it
\* is not flagged Lost no event is sent and the job is left as it is.
C25_LostToRunning ==
    [][\A c \in Clients, k \in Keys :
          (k \in runQ /\ jobs[k].ReservedBy = c /\ Jtouch(c, k)
             /\ ~jobs[k].killCalled /\ ~killRunners)
          => IF jobs[k].Lost
             THEN /\ ttrLeft'[k] = TTRTicks
                  /\ ~jobs'[k].Lost /\ ~jobs'[k].EndTime
                  /\ Len(cast') = 2
                  /\ \A g \in {AllGroups, jobs[k].RepGroup} :
                        \E i \in 1..2 :
                            cast'[i] = jstateCount(g, JobStateLost, JobStateRunning, 1)
             ELSE cast' = <<>> /\ jobs' = jobs]_vars

\* the worker's jtouch has brought its lost job back to running
C25_Witness ==
    /\ cast # <<>>
    /\ 1 \in runQ /\ ~jobs[1].Lost /\ jobs[1].StartTime /\ ~jobs[1].EndTime
    /\ ttrLeft[1] = TTRTicks
    /\ ~resp.KillCalled /\ resp.Err = ""


\* the step is the one in which call c, back from provider.Spawn, takes the
\* mutex again
SpawnEnds(c) == pc[c] = "spawning" /\ pc'[c] # "spawning"

\* C26: when provider.Spawn (with the check of the new server) is over, the
\* call takes one from spawningNow and from reservedInstances, gives back the
\* cores, RAM and volume it reserved, resolves its standin and removes it from
\* standins; when the spawn worked the standin has worked and the new server
\* is in servers, when it failed the standin has failed, the call returns the
\* error and servers is as it was.
C26_SpawnEnds ==
    [][\A c \in Calls :
          SpawnEnds(c)
          => /\ spawningNow' = spawningNow - 1
             /\ reservedInstances' = reservedInstances - 1
             /\ reserve(reserved') = reserved
             /\ c \in DOMAIN standins /\ c \notin DOMAIN standins'
             /\ \/ /\ latch'[c] = "work"
                   /\ c \notin DOMAIN servers /\ c \in DOMAIN servers'
                   /\ server'[c] = c /\ pc'[c] = "running"
                \/ /\ latch'[c] = "fail"
                   /\ servers' = servers
                   /\ pc'[c] = "failed"]_vars

\* one call's spawn has worked and another's has failed, and nothing is left
\* reserved
C26_Witness ==
    /\ \E c, d \in Calls :
          /\ latch[c] = "work" /\ c \in DOMAIN servers
          /\ latch[d] = "fail" /\ pc[d] = "failed"
    /\ spawningNow = 0 /\ waitingToSpawn = 0
    /\ reservedInstances = 0
    /\ reserved = [Cores |-> 0, RAM |-> 0, Volume |-> 0]
    /\ standins = <<>>


\* C27: the server a call allocates its command on and runs it on, whenever
\* the call gets to it, is then among the servers and not destroyed.
C27_NoDestroyedHost ==
    [][\A c \in Calls :
          (pc[c] # "running" /\ pc'[c] = "running")
          => /\ server'[c] \in DOMAIN servers'
             /\ ~servers'[server'[c]].destroyed]_vars


\* the calls that wait their turn to spawn
Waiters == {c \in Calls : pc[c] = "waiting"}

\* C28: what a call sends on stopWaitingToSpawn is received by one of the
\* calls waiting to spawn: that one stops waiting, the others wait on, and the
\* sender returns; and the call that stopped gives up alone, the others
\* waiting on.
C28_OneWaiter ==
    [][/\ \A c, sender \in Calls :
             StopWaiting(c, sender)
             => /\ Waiters' = Waiters \ {c}
                /\ c \in Waiters
                /\ pc'[c] = "stopped"
                /\ pc'[sender] = "returned"
                /\ \A d \in Calls \ {c, sender} : pc'[d] = pc[d]
       /\ \A c \in Calls :
             GiveUp(c)
             => /\ pc[c] = "stopped"
                /\ Waiters' = Waiters
                /\ waitingToSpawn' = waitingToSpawn - 1]_vars

\* two calls waited to spawn when a third, its command run, signalled: one of
\* them has given up and the other waits on
C28_Witness ==
    \E c, d, sender \in Calls :
        /\ pc[c] = "failed" /\ latch[c] = "fail"
        /\ pc[d] = "waiting"
        /\ pc[sender] = "returned"
        /\ waitingToSpawn = 1


\* C29: a request takes its mutexes in the order Server, Scheduler, Queue (or
\* Item), Job: of two mutexes it holds, the one taken later is not before the
\* other in that order, so nothing of the queue or the scheduler is locked
\* under a job's mutex.
C29_LockOrder ==
    \A c \in Clients :
        \A i, j \in DOMAIN locking[c].held :
            i < j => LockRank[locking[c].held[i]] <= LockRank[locking[c].held[j]]


\* what the last call of canCount was given: the hosts that were not destroyed,
\* the flavor for its requirements, whether a volume is needed, and for each
\* dimension that counts how many hosts what remains of it is enough for
CountedLive == {sid \in DOMAIN counted.servers : ~counted.servers[sid].destroyed}
CountedReq == reqForSpawn(counted.req)
CountedFlavor == cheapestFlavor(CountedReq.Cores, CountedReq.RAM)
CountsVolume == counted.req.Disk > CountedFlavor.Disk
Left(max, used, held) == IF max = 0 THEN unquotadVal ELSE max - used - held
HostsBy ==
    {QuotaMaxInstances - Cardinality(CountedLive) - reservedInstances,
     Left(quota.MaxRAM, quota.UsedRAM, reserved.RAM) \div CountedFlavor.RAM,
     Left(quota.MaxCores, quota.UsedCores, reserved.Cores) \div CountedFlavor.Cores}
    \cup IF CountsVolume
         THEN {Left(quota.MaxVolume, quota.UsedVolume, reserved.Volume)
                   \div counted.req.Disk}
         ELSE {}
Least(S) == CHOOSE n \in S : \A m \in S : n <= m
NoSpawn ==
    \/ CapableFlavors(CountedReq.Cores, CountedReq.RAM) = {}
    \/ counted.quotaErr
    \/ \E n \in HostsBy : n < 1

\* C30: canCount returns the room on the hosts that are not destroyed plus,
\* for each host that can be spawned, the commands one host takes; the hosts
\* that can be spawned are the least, over instances, RAM, cores and (only when
\* the command needs more disk than the flavor has) volume, of what remains
\* (the maximum less what is used and what is reserved; no maximum is no limit)
\* divided by what one host needs, rounded down, and none when no flavor fits,
\* the quota cannot be read or what remains of a dimension is less than one
\* host needs. The destroyed hosts are gone from servers after the count.
C30_CanCount ==
    counted # NoCount =>
        /\ DOMAIN servers = CountedLive
        /\ \A sid \in CountedLive : servers[sid] = counted.servers[sid]
        /\ counted.count =
              SpaceOn(CountedLive)
              + IF NoSpawn THEN 0
                ELSE Least(HostsBy) * reqsPerServer(CountedFlavor, CountedReq, CountsVolume)

\* a count with a destroyed host and a live one, for a command that needs a
\* volume and for which a host can be spawned
C30_Witness ==
    /\ counted # NoCount
    /\ CountedLive # {}
    /\ CountedLive # DOMAIN counted.servers
    /\ ~NoSpawn
    /\ CountsVolume
    /\ counted.count > SpaceOn(CountedLive)


\* the commands of the last count's requirements that one host of the flavor
\* takes, by the command's own cores, RAM and disk
CountedPerServer ==
    Least({CountedFlavor.Cores \div counted.req.Cores}
          \cup (IF counted.req.RAM > 0
                THEN {CountedFlavor.RAM \div counted.req.RAM} ELSE {})
          \cup (IF counted.req.Disk > 0
                THEN {IF CountsVolume THEN 1
                      ELSE CountedFlavor.Disk \div counted.req.Disk}
                ELSE {}))

\* C31: for each host canCount finds it can spawn it counts the least, over
\* cores, RAM and disk, of what the flavor has divided by what the command
\* itself requires, rounded down, the disk counting as 1 when the command needs
\* a volume (more disk than the flavor has).
C31_PerServer ==
    (counted # NoCount /\ ~NoSpawn) =>
        counted.count = SpaceOn(CountedLive) + Least(HostsBy) * CountedPerServer


\* what the standin has free, and whether the requirements fit in it
FreeOf(s) ==
    [Cores |-> s.flavor.Cores - s.usedCores, RAM |-> s.flavor.RAM - s.usedRAM,
     Disk |-> s.disk - s.usedDisk]
Fits(s, req) ==
    /\ req.Cores <= FreeOf(s).Cores
    /\ req.RAM <= FreeOf(s).RAM
    /\ req.Disk <= FreeOf(s).Disk
Takes(s, req) ==
    Least({FreeOf(s).Cores \div req.Cores}
          \cup (IF req.RAM > 0 THEN {FreeOf(s).RAM \div req.RAM} ELSE {})
          \cup (IF req.Disk > 0 THEN {FreeOf(s).Disk \div req.Disk} ELSE {}))

\* C32: for requirements of at least one core, with or without RAM and disk,
\* hasSpaceFor of a standin returns a number and does not panic: 0 when the
\* requirements do not fit in what the standin has free, and else the least,
\* over the cores and over the RAM and the disk when some is required, of what
\* is free divided by what is required, rounded down; allocate adds the cores,
\* the RAM and the disk required to what the standin has in use.
C32_HasSpaceFor ==
    /\ [](standinServer.did = "hasSpaceFor" =>
            /\ ~standinServer.space.panic
            /\ standinServer.space.canDo =
                  IF Fits(standinServer, standinServer.req)
                  THEN Takes(standinServer, standinServer.req) ELSE 0)
    /\ [][\A req \in SpaceReqs :
            StandinAllocate(req) =>
                /\ standinServer'.usedCores = standinServer.usedCores + req.Cores
                /\ standinServer'.usedRAM = standinServer.usedRAM + req.RAM
                /\ standinServer'.usedDisk = standinServer.usedDisk + req.Disk]_vars


\* C33: a call of runCmd whose command has run, and that sends on
\* stopWaitingToSpawn because it saw a call waiting to spawn, has its signal
\* received and returns.
C33_SignalReceived ==
    \A c \in Calls : (pc[c] = "signalling") ~> (pc[c] = "returned")


\* C34: between the critical sections of runCmd, waitingToSpawn and
\* spawningNow are not negative and together are the number of standins.
C34_StandinCount ==
    /\ waitingToSpawn >= 0
    /\ spawningNow >= 0
    /\ waitingToSpawn + spawningNow = Cardinality(DOMAIN standins)

\* a call waiting to spawn was promoted while another call spawns, and a call
\* before them has given up or failed
C34_Witness ==
    /\ spawningNow = 2
    /\ waitingToSpawn = 0
    /\ Cardinality(DOMAIN standins) = 2
    /\ \E c \in Calls : pc[c] = "failed"


\* C35: no server has more commands allocated on it than a server of its
\* flavor has room for (every command requiring the same, that is its cores,
\* RAM and disk in use within the flavor's).
C35_WithinCapacity ==
    \A sid \in DOMAIN servers : servers[sid].used <= perServer


\* C36: a call that waits for the server of a standin has allocated on no
\* other standin but ones that failed, and a call whose standin has resolved to
\* a server goes on to run its command there: it allocates on no further
\* standin and does not spawn.
C36_OneStandin ==
    /\ [](\A c \in Calls :
            pc[c] = "attached" =>
                \A sid \in visited[c] \ {waitOn[c]} : latch[sid] = "fail")
    /\ [][\A c \in Calls :
            (Resume(c) /\ latch[waitOn[c]] = "work") =>
                (pc'[c] = "running" /\ server'[c] = waitOn[c])]_vars

====
